---- MODULE Spec2Model ----
(***************************************************************************)
(* Portfolio valuation and quote synchronisation of the investment         *)
(* tracker: the transaction ledger, the quote table, the FX-rate table,    *)
(* the portfolio GET handler and the quote-sync POST handler.              *)
(*                                                                         *)
(* Numbers that the handlers compute in floating point are modelled as     *)
(* exact rationals <<numerator, denominator>> in lowest terms, so that     *)
(* "equal within floating-point tolerance" becomes plain equality.  A      *)
(* denominator of 0 stands for a non-finite value (NaN / Infinity).        *)
(***************************************************************************)
EXTENDS Integers, Sequences, FiniteSets, Bags, TLC

\* ------------------------------------------------------------------ bounds
MaxTx == 3          \* rows the transaction table may hold
MaxDay == 2         \* calendar days the clock runs through (SpecQuotes, SpecSync)
MaxDayFx == 6       \* calendar days the clock runs through (SpecFx)
MaxAssets == 4      \* rows the asset table may hold

\* ------------------------------------------------------- program constants
RatesLimit == 10    \* .limit(10) of the dollar-rates query
Retries == 2        \* fetchYahooQuote(yahooTicker, retries = 2)
RateLimitDelay == 3000   \* ms, delay(3000 * (attempt + 1))
RetryDelay == 1500       \* ms, delay(1500) before a retry
BatchDelay == 1000       \* ms, delay(1000) between two tickers
ContextLimit == 4         \* limit: 4 of the chat context's dollar-rates query

NULL == "null"
NoUser == "anon"
Users == {"u1", "u2"}

\* ------------------------------------------------------------- arithmetic
Abs(x) == IF x < 0 THEN -x ELSE x

GCD[a \in Nat, b \in Nat] == IF b = 0 THEN a ELSE GCD[b, a % b]

\* n/d in lowest terms, d > 0
Norm(n, d) == LET g == GCD[Abs(n), d] IN <<n \div g, d \div g>>

Num(n) == <<n, 1>>
NaN == <<0, 0>>
Finite(x) == x[2] # 0

NumAdd(x, y) ==
    IF Finite(x) /\ Finite(y) THEN Norm(x[1] * y[2] + y[1] * x[2], x[2] * y[2]) ELSE NaN

NumSub(x, y) ==
    IF Finite(x) /\ Finite(y) THEN Norm(x[1] * y[2] - y[1] * x[2], x[2] * y[2]) ELSE NaN

NumMul(x, y) ==
    IF Finite(x) /\ Finite(y) THEN Norm(x[1] * y[1], x[2] * y[2]) ELSE NaN

\* JavaScript division: a zero divisor gives a non-finite value, never an exception
NumDiv(x, y) ==
    IF ~Finite(x) \/ ~Finite(y) \/ y[1] = 0 THEN NaN
    ELSE IF y[1] > 0 THEN Norm(x[1] * y[2], x[2] * y[1])
    ELSE Norm(-(x[1] * y[2]), x[2] * (-y[1]))

\* x > y; every comparison with a non-finite value is false
NumGt(x, y) == Finite(x) /\ Finite(y) /\ x[1] * y[2] > y[1] * x[2]

NumGe(x, y) == Finite(x) /\ Finite(y) /\ x[1] * y[2] >= y[1] * x[2]

\* --------------------------------------------------------------- the store
VARIABLES
    assets,        \* table assets: id -> row
    txs,           \* table transactions: set of rows, each with its own id
    quotes,        \* table quotes: bag of rows [assetId, date, price]
    dollarRates,   \* table dollar_rates: bag of rows [date, type, buyPrice, sellPrice]
    today,         \* the calendar day new Date() gives
    req,           \* the request the last handler served
    resp,          \* the response it returned
    pending        \* the handlers in flight: what each has left to do

vars == <<assets, txs, quotes, dollarRates, today, req, resp, pending>>

store == <<assets, txs, quotes, dollarRates>>

\* Rows of the seed script: a CEDEAR and an Argentine stock quoted in ARS through
\* the equity provider, a crypto asset quoted in USD through the crypto provider.
SeedAssets ==
    ("a1" :> [ticker |-> "AAPL", name |-> "Apple", type |-> "cedear", currency |-> "ARS",
              yahooTicker |-> "AAPL.BA", coingeckoId |-> NULL, underlyingTicker |-> "AAPL"])
    @@ ("a2" :> [ticker |-> "GGAL", name |-> "Grupo Financiero Galicia", type |-> "arg_stock",
                 currency |-> "ARS", yahooTicker |-> "GGAL.BA", coingeckoId |-> NULL,
                 underlyingTicker |-> NULL])
    @@ ("a3" :> [ticker |-> "BTC", name |-> "Bitcoin", type |-> "crypto", currency |-> "USD",
                 yahooTicker |-> NULL, coingeckoId |-> "bitcoin", underlyingTicker |-> NULL])

AssetIds == DOMAIN assets

NoRequest == [op |-> "none", user |-> NoUser]
NoResponse == [kind |-> "none", status |-> 0]

Init ==
    /\ assets = SeedAssets
    /\ txs = {}
    /\ quotes = EmptyBag
    /\ dollarRates = EmptyBag
    /\ today = 1
    /\ req = NoRequest
    /\ resp = NoResponse
    /\ pending = {}

Unauthorized == [kind |-> "error", status |-> 401]

\* ----------------------------------------------------- transactions (CRUD)
\* createTransactionSchema: quantity and unitPrice positive, fee not negative
ValidTransaction(body) ==
    /\ body.type \in {"buy", "sell"}
    /\ body.quantity > 0
    /\ body.unitPrice > 0
    /\ body.fee >= 0

TxIds == 1..MaxTx

\* defaultRandom(): an id no row of the table has or had; a request in flight
\* may still name the id of a row that is gone
UnusedTxId(i) ==
    /\ \A t \in txs : t.id # i
    /\ \A p \in pending : "txId" \in DOMAIN p => p.txId # i

FreshTxId == CHOOSE i \in TxIds : UnusedTxId(i)

TxRow(id, u, body) ==
    [id |-> id, userId |-> u, assetId |-> body.assetId, date |-> body.date,
     type |-> body.type, quantity |-> body.quantity, unitPrice |-> body.unitPrice,
     fee |-> body.fee]

\* POST /api/transactions
CreateTransaction(u, body) ==
    /\ Cardinality(txs) < MaxTx
    /\ req' = [op |-> "createTransaction", user |-> u]
    /\ IF u = NoUser
       THEN /\ resp' = Unauthorized
            /\ UNCHANGED txs
       ELSE IF ~ValidTransaction(body)
       THEN /\ resp' = [kind |-> "error", status |-> 400]
            /\ UNCHANGED txs
       ELSE IF body.assetId \notin AssetIds
       THEN \* foreign key transactions.asset_id -> assets.id: the insert throws
            /\ resp' = [kind |-> "error", status |-> 500]
            /\ UNCHANGED txs
       ELSE /\ txs' = txs \cup {TxRow(FreshTxId, u, body)}
            /\ resp' = [kind |-> "transaction", status |-> 200, id |-> FreshTxId]
    /\ UNCHANGED <<assets, quotes, dollarRates, today, pending>>

\* PUT /api/transactions?id=
UpdateTransaction(u, id, body) ==
    /\ req' = [op |-> "updateTransaction", user |-> u]
    /\ IF u = NoUser
       THEN /\ resp' = Unauthorized
            /\ UNCHANGED txs
       ELSE IF ~\E t \in txs : t.id = id /\ t.userId = u
       THEN /\ resp' = [kind |-> "error", status |-> 404]
            /\ UNCHANGED txs
       ELSE IF ~ValidTransaction(body)
       THEN /\ resp' = [kind |-> "error", status |-> 400]
            /\ UNCHANGED txs
       ELSE IF body.assetId \notin AssetIds
       THEN /\ resp' = [kind |-> "error", status |-> 500]
            /\ UNCHANGED txs
       ELSE LET old == CHOOSE t \in txs : t.id = id
            IN  /\ txs' = (txs \ {old}) \cup {TxRow(id, old.userId, body)}
                /\ resp' = [kind |-> "transaction", status |-> 200, id |-> id]
    /\ UNCHANGED <<assets, quotes, dollarRates, today, pending>>

\* DELETE /api/transactions?id=
DeleteTransaction(u, id) ==
    /\ req' = [op |-> "deleteTransaction", user |-> u]
    /\ IF u = NoUser
       THEN /\ resp' = Unauthorized
            /\ UNCHANGED txs
       ELSE IF ~\E t \in txs : t.id = id /\ t.userId = u
       THEN /\ resp' = [kind |-> "error", status |-> 404]
            /\ UNCHANGED txs
       ELSE /\ txs' = {t \in txs : t.id # id}
            /\ resp' = [kind |-> "deleted", status |-> 200]
    /\ UNCHANGED <<assets, quotes, dollarRates, today, pending>>

\* The clock passes midnight (UTC): new Date().toISOString().split("T")[0] changes
Tick(maxDay) ==
    /\ today < maxDay
    /\ today' = today + 1
    /\ req' = NoRequest
    /\ resp' = NoResponse
    /\ UNCHANGED <<store, pending>>

\* -------------------------------------------------- GET /api/portfolio
\* sum(...) of an SQL aggregate: f gives each row's term
SumOver(f, S) ==
    LET sum[T \in SUBSET S] ==
            IF T = {} THEN 0
            ELSE LET x == CHOOSE y \in T : TRUE IN f[x] + sum[T \ {x}]
    IN  sum[S]

\* Variant: the group of asset a over the rows of every user
AllUsersTxs(u, a) == {t \in txs : t.assetId = a}

\* where user_id = u, the group of asset a
UserTxs(u, a) == {t \in txs : t.userId = u /\ t.assetId = a}

NetQuantity(u, a) ==
    SumOver([t \in UserTxs(u, a) |-> IF t.type = "buy" THEN t.quantity ELSE -t.quantity],
            UserTxs(u, a))

\* Variant: sells counted into the quantity bought
TotalBoughtWithSells(u, a) ==
    SumOver([t \in UserTxs(u, a) |-> t.quantity], UserTxs(u, a))

TotalBought(u, a) ==
    SumOver([t \in UserTxs(u, a) |-> IF t.type = "buy" THEN t.quantity ELSE 0],
            UserTxs(u, a))

\* Variant: the proceeds of sells taken off the cost of buys
TotalCostNetOfSells(u, a) ==
    SumOver([t \in UserTxs(u, a) |-> IF t.type = "buy" THEN t.quantity * t.unitPrice
                                     ELSE -(t.quantity * t.unitPrice)],
            UserTxs(u, a))

TotalCost(u, a) ==
    SumOver([t \in UserTxs(u, a) |-> IF t.type = "buy" THEN t.quantity * t.unitPrice ELSE 0],
            UserTxs(u, a))

\* Variant: having sum(signed quantity) >= 0
HeldAssetsOrClosed(u) ==
    {a \in {t.assetId : t \in {x \in txs : x.userId = u}} : NetQuantity(u, a) >= 0}

\* group by asset_id having sum(signed quantity) > 0
HeldAssets(u) ==
    {a \in {t.assetId : t \in {x \in txs : x.userId = u}} : NetQuantity(u, a) > 0}

HoldingRow(u, a) ==
    [assetId |-> a, quantity |-> NetQuantity(u, a), totalBought |-> TotalBought(u, a),
     totalCost |-> TotalCost(u, a)]

\* The query has no ORDER BY: the groups come back in any order
GroupOrders(u) ==
    LET S == HeldAssets(u)
    IN  {f \in [1..Cardinality(S) -> S] : \A i, j \in 1..Cardinality(S) : i # j => f[i] # f[j]}

RateRows == BagToSet(dollarRates)

RowCount(S) == SumOver([r \in S |-> CopiesIn(r, dollarRates)], S)

\* order by date desc limit 10: every row newer than the date the limit falls on,
\* and any of the rows of that date that fill the limit
RateSelections ==
    IF RowCount(RateRows) <= RatesLimit THEN {RateRows}
    ELSE LET d == CHOOSE x \in {r.date : r \in RateRows} :
                    /\ RowCount({r \in RateRows : r.date > x}) < RatesLimit
                    /\ RowCount({r \in RateRows : r.date >= x}) >= RatesLimit
             newer == {r \in RateRows : r.date > d}
             tie == {r \in RateRows : r.date = d}
         IN  {newer \cup T : T \in {X \in SUBSET tie : RowCount(newer \cup X) = RatesLimit}}

\* ratesByType[type] after the loop over the selected rows, newest first: the first
\* truthy sellPrice of that type; 0 stands for "undefined or 0", both falsy
RateByType(sel, type) ==
    LET c == {r \in sel : r.type = type /\ r.sellPrice # 0}
    IN  IF c = {} THEN 0
        ELSE (CHOOSE r \in c : \A q \in c : r.date >= q.date).sellPrice

\* a || b on numbers
OrElse(a, b) == IF a # 0 THEN a ELSE b

DollarOficial(sel) == OrElse(OrElse(RateByType(sel, "oficial"), RateByType(sel, "mep")), 1)
DollarMep(sel) == OrElse(RateByType(sel, "mep"), 1)
DollarBlue(sel) == OrElse(RateByType(sel, "blue"), 1)

QuoteRows(a) == {q \in BagToSet(quotes) : q.assetId = a}

\* Variant: order by asset_id, date asc
EarliestQuote(a) == CHOOSE q \in QuoteRows(a) : \A o \in QuoteRows(a) : q.date <= o.date

\* select distinct on (asset_id) ... order by asset_id, date desc
LatestQuote(a) == CHOOSE q \in QuoteRows(a) : \A o \in QuoteRows(a) : q.date >= o.date

AvgPrice(totalBought, totalCost) ==
    IF totalBought > 0 THEN NumDiv(Num(totalCost), Num(totalBought)) ELSE Num(0)

\* quotesMap.get(assetId) ?? avgPrice
CurrentPrice(a, avgPrice) ==
    IF QuoteRows(a) # {} THEN Num(LatestQuote(a).price) ELSE avgPrice

\* Variant: the rate applied the wrong way round
ToUsdTimesRate(amount, currency, dollarOficial) ==
    IF currency = "ARS" THEN NumMul(amount, Num(dollarOficial)) ELSE amount

ToUsd(amount, currency, dollarOficial) ==
    IF currency = "ARS" THEN NumDiv(amount, Num(dollarOficial)) ELSE amount

ReturnPct(currentPrice, avgPrice) ==
    IF NumGt(avgPrice, Num(0))
    THEN NumMul(NumDiv(NumSub(currentPrice, avgPrice), avgPrice), Num(100))
    ELSE Num(0)

\* One pass of the loop over the aggregated rows; costUsd is the loop's local
Valued(h, dollarOficial) ==
    LET asset == assets[h.assetId]
        quantity == Num(h.quantity)
        avgPrice == AvgPrice(h.totalBought, h.totalCost)
        currentPrice == CurrentPrice(h.assetId, avgPrice)
        currentValue == NumMul(quantity, currentPrice)
        costBasis == NumMul(quantity, avgPrice)
    IN  [ticker |-> asset.ticker, name |-> asset.name, type |-> asset.type,
         currency |-> asset.currency, quantity |-> quantity, avgPrice |-> avgPrice,
         currentPrice |-> currentPrice, currentValue |-> currentValue,
         costBasis |-> costBasis,
         valueUsd |-> ToUsd(currentValue, asset.currency, dollarOficial),
         costUsd |-> ToUsd(costBasis, asset.currency, dollarOficial),
         returnPct |-> ReturnPct(currentPrice, avgPrice),
         returnAbs |-> NumMul(NumSub(currentPrice, avgPrice), quantity)]

\* result.push({...}): the entry of the response, without the local costUsd
Holding(v) ==
    [ticker |-> v.ticker, name |-> v.name, type |-> v.type, currency |-> v.currency,
     quantity |-> v.quantity, avgPrice |-> v.avgPrice, currentPrice |-> v.currentPrice,
     currentValue |-> v.currentValue, costBasis |-> v.costBasis, valueUsd |-> v.valueUsd,
     returnPct |-> v.returnPct, returnAbs |-> v.returnAbs]

RECURSIVE NumSum(_)
NumSum(s) == IF s = <<>> THEN Num(0) ELSE NumAdd(Head(s), NumSum(Tail(s)))

RECURSIVE InsertByValueAscending(_, _)
\* Variant: the comparator a.valueUsd - b.valueUsd
InsertByValueAscending(x, s) ==
    IF s = <<>> THEN <<x>>
    ELSE IF NumGt(Head(s).valueUsd, x.valueUsd) THEN <<x>> \o s
    ELSE <<Head(s)>> \o InsertByValueAscending(x, Tail(s))

RECURSIVE InsertByValue(_, _)
\* x goes before the first entry the comparator b.valueUsd - a.valueUsd puts it before
InsertByValue(x, s) ==
    IF s = <<>> THEN <<x>>
    ELSE IF NumGt(x.valueUsd, Head(s).valueUsd) THEN <<x>> \o s
    ELSE <<Head(s)>> \o InsertByValue(x, Tail(s))

RECURSIVE SortByValue(_)
\* result.sort((a, b) => b.valueUsd - a.valueUsd), a stable sort
SortByValue(s) ==
    IF s = <<>> THEN <<>>
    ELSE InsertByValue(s[Len(s)], SortByValue(SubSeq(s, 1, Len(s) - 1)))

\* Variant: the return taken over the value instead of the cost
TotalReturnPctOfValue(totalValueUsd, totalCostUsd) ==
    IF NumGt(totalCostUsd, Num(0))
    THEN NumMul(NumDiv(NumSub(totalValueUsd, totalCostUsd), totalValueUsd), Num(100))
    ELSE Num(0)

TotalReturnPct(totalValueUsd, totalCostUsd) ==
    IF NumGt(totalCostUsd, Num(0))
    THEN NumMul(NumDiv(NumSub(totalValueUsd, totalCostUsd), totalCostUsd), Num(100))
    ELSE Num(0)

\* Variant: the early return reporting the stored rates
ZeroSummaryStoredRates ==
    [kind |-> "portfolio", status |-> 200,
     totalValueUsd |-> Num(0), totalCostUsd |-> Num(0), totalReturnAbs |-> Num(0),
     totalReturnPct |-> Num(0), totalValueArs |-> Num(0), totalCostArs |-> Num(0),
     totalReturnAbsArs |-> Num(0),
     dollarRates |-> [oficial |-> Num(DollarOficial(RateRows)), mep |-> Num(DollarMep(RateRows)),
                      blue |-> Num(DollarBlue(RateRows))],
     holdings |-> <<>>]

ZeroSummary ==
    [kind |-> "portfolio", status |-> 200,
     totalValueUsd |-> Num(0), totalCostUsd |-> Num(0), totalReturnAbs |-> Num(0),
     totalReturnPct |-> Num(0), totalValueArs |-> Num(0), totalCostArs |-> Num(0),
     totalReturnAbsArs |-> Num(0),
     dollarRates |-> [oficial |-> Num(1), mep |-> Num(1), blue |-> Num(1)],
     holdings |-> <<>>]

\* The response for user u when the groups come back as `order` and the rates
\* query returns the rows `sel`
Summary(u, order, sel) ==
    IF Len(order) = 0 THEN ZeroSummary
    ELSE LET dollarOficial == DollarOficial(sel)
             rows == SelectSeq([i \in 1..Len(order) |-> HoldingRow(u, order[i])],
                               LAMBDA h : h.assetId \in AssetIds)
             valued == [i \in 1..Len(rows) |-> Valued(rows[i], dollarOficial)]
             totalValueUsd == NumSum([i \in 1..Len(valued) |-> valued[i].valueUsd])
             totalCostUsd == NumSum([i \in 1..Len(valued) |-> valued[i].costUsd])
             totalReturnAbs == NumSub(totalValueUsd, totalCostUsd)
         IN  [kind |-> "portfolio", status |-> 200,
              totalValueUsd |-> totalValueUsd,
              totalCostUsd |-> totalCostUsd,
              totalReturnAbs |-> totalReturnAbs,
              totalReturnPct |-> TotalReturnPct(totalValueUsd, totalCostUsd),
              totalValueArs |-> NumMul(totalValueUsd, Num(dollarOficial)),
              totalCostArs |-> NumMul(totalCostUsd, Num(dollarOficial)),
              totalReturnAbsArs |-> NumMul(totalReturnAbs, Num(dollarOficial)),
              dollarRates |-> [oficial |-> Num(dollarOficial),
                               mep |-> Num(DollarMep(sel)),
                               blue |-> Num(DollarBlue(sel))],
              holdings |-> SortByValue([i \in 1..Len(valued) |-> Holding(valued[i])])]

GetPortfolio(u, order, sel) ==
    /\ req' = [op |-> "portfolio", user |-> u]
    /\ resp' = IF u = NoUser THEN Unauthorized ELSE Summary(u, order, sel)
    /\ UNCHANGED <<assets, txs, quotes, dollarRates, today, pending>>

\* ------------------------------------------------------- POST /api/chat
\* order by date desc limit 4: as the valuation's rates query, with its own limit
ContextSelections ==
    IF RowCount(RateRows) <= ContextLimit THEN {RateRows}
    ELSE LET d == CHOOSE x \in {r.date : r \in RateRows} :
                    /\ RowCount({r \in RateRows : r.date > x}) < ContextLimit
                    /\ RowCount({r \in RateRows : r.date >= x}) >= ContextLimit
             newer == {r \in RateRows : r.date > d}
             tie == {r \in RateRows : r.date = d}
         IN  {newer \cup T : T \in {X \in SUBSET tie : RowCount(newer \cup X) = ContextLimit}}

\* holdingsMap[key] after the loop over the user's rows: a buy adds to quantity
\* and to totalCost, a sell takes its quantity off
ContextHolding(u, a) ==
    LET rows == {t \in txs : t.userId = u /\ t.assetId = a}
    IN  [ticker |-> assets[a].ticker, name |-> assets[a].name, type |-> assets[a].type,
         currency |-> assets[a].currency,
         quantity |-> SumOver([t \in rows |-> IF t.type = "buy" THEN t.quantity
                                              ELSE -t.quantity], rows),
         totalCost |-> SumOver([t \in rows |-> IF t.type = "buy"
                                               THEN t.quantity * t.unitPrice ELSE 0], rows),
         currentPrice |-> IF QuoteRows(a) = {} THEN NULL ELSE LatestQuote(a).price]

\* buildSystemPrompt: const avgCost = h.totalCost / h.quantity
AvgCost(h) == NumDiv(Num(h.totalCost), Num(h.quantity))

\* getPortfolioContext and the average cost the system prompt reports per holding
PortfolioContext(u, sel) ==
    LET touched == {t.assetId : t \in {x \in txs : x.userId = u}}
        held == {a \in touched : ContextHolding(u, a).quantity > 0}
    IN  [kind |-> "context", status |-> 200,
         holdings |-> [a \in held |-> ContextHolding(u, a)],
         avgCost |-> [a \in held |-> AvgCost(ContextHolding(u, a))],
         dollarRates |-> [type \in {r.type : r \in sel} |-> RateByType(sel, type)],
         transactionCount |-> Cardinality({t \in txs : t.userId = u})]

\* POST /api/chat up to the system prompt; `messages`: the body carries some
GetPortfolioContext(u, messages, sel) ==
    /\ req' = [op |-> "chat", user |-> u]
    /\ resp' = IF u = NoUser THEN Unauthorized
               ELSE IF ~messages THEN [kind |-> "error", status |-> 400]
               ELSE PortfolioContext(u, sel)
    /\ UNCHANGED <<store, today, pending>>

\* ------------------------------------------------ quote provider adapters
\* fetchDolarApi: the provider's array of {casa, compra, venta}, renamed
FetchDolarApi(primary) ==
    [i \in 1..Len(primary.data) |->
        [type |-> primary.data[i].casa, buyPrice |-> primary.data[i].compra,
         sellPrice |-> primary.data[i].venta]]

\* fetchBluelytics: the provider's object {oficial, blue}, each entry optional
FetchBluelytics(fallback) ==
    (IF "oficial" \in DOMAIN fallback.data
     THEN <<[type |-> "oficial", buyPrice |-> fallback.data["oficial"].value_buy,
             sellPrice |-> fallback.data["oficial"].value_sell]>>
     ELSE <<>>)
    \o
    (IF "blue" \in DOMAIN fallback.data
     THEN <<[type |-> "blue", buyPrice |-> fallback.data["blue"].value_buy,
             sellPrice |-> fallback.data["blue"].value_sell]>>
     ELSE <<>>)

\* Variant: no fallback, the primary provider's failure is the adapter's
FetchDollarRatesPrimaryOnly(fx) ==
    IF fx.primary.ok
    THEN [ok |-> TRUE, rates |-> FetchDolarApi(fx.primary), calls |-> <<"dolarapi">>]
    ELSE [ok |-> FALSE, rates |-> <<>>, calls |-> <<"dolarapi">>]

\* fetchDollarRates: the primary provider, the fallback when the primary throws;
\* ok = FALSE when the fallback throws too; calls lists the providers it called
FetchDollarRates(fx) ==
    IF fx.primary.ok
    THEN [ok |-> TRUE, rates |-> FetchDolarApi(fx.primary), calls |-> <<"dolarapi">>]
    ELSE IF fx.fallback.ok
    THEN [ok |-> TRUE, rates |-> FetchBluelytics(fx.fallback), calls |-> <<"dolarapi", "bluelytics">>]
    ELSE [ok |-> FALSE, rates |-> <<>>, calls |-> <<"dolarapi", "bluelytics">>]

\* fetchCoinGecko: one batched call; ids with no truthy usd price are left out
FetchCoinGecko(ids, cg) ==
    [id \in {x \in ids : x \in DOMAIN cg.data /\ cg.data[x] # 0} |-> cg.data[id]]

RECURSIVE YahooAttempt(_, _)
\* fetchYahooQuote from attempt number `attempt` on; outcomes[n] is what the
\* provider does to the n-th request for the ticker
YahooAttempt(outcomes, attempt) ==
    IF attempt > Retries THEN [ok |-> FALSE, price |-> 0]
    ELSE LET o == outcomes[attempt + 1]
         IN  IF o.kind = "ratelimit" THEN YahooAttempt(outcomes, attempt + 1)
             ELSE IF o.kind \in {"http", "badjson", "throw"}
             THEN IF attempt < Retries THEN YahooAttempt(outcomes, attempt + 1)
                  ELSE [ok |-> FALSE, price |-> 0]
             ELSE IF o.kind \in {"nometa", "noprice"} THEN [ok |-> FALSE, price |-> 0]
             ELSE [ok |-> TRUE, price |-> o.price]

FetchYahooQuote(ticker, yahoo) == YahooAttempt(yahoo[ticker], 0)

\* Variant: one ticker without a quote leaves the whole mapping empty
FetchYahooQuotesAllOrNone(tickers, yahoo) ==
    IF \A x \in tickers : FetchYahooQuote(x, yahoo).ok
    THEN [t \in tickers |-> FetchYahooQuote(t, yahoo).price]
    ELSE [t \in {} |-> 0]

\* Variant: a ticker without a quote is kept with price 0
FetchYahooQuotesZeroed(tickers, yahoo) ==
    [t \in tickers |-> IF FetchYahooQuote(t, yahoo).ok THEN FetchYahooQuote(t, yahoo).price ELSE 0]

\* fetchYahooQuotes: one ticker after the other; a ticker with no quote has no key
FetchYahooQuotes(tickers, yahoo) ==
    [t \in {x \in tickers : FetchYahooQuote(x, yahoo).ok} |-> FetchYahooQuote(t, yahoo).price]

\* ------------------------------------------------- POST /api/quotes/sync
\* Variant: a plain insert, no conflict target
InsertQuote(table, assetId, date, price) ==
    table (+) SetToBag({[assetId |-> assetId, date |-> date, price |-> price]})

\* Variant: insert ... on conflict do nothing
KeepQuote(table, assetId, date, price) ==
    IF \E r \in BagToSet(table) : r.assetId = assetId /\ r.date = date
    THEN table
    ELSE table (+) SetToBag({[assetId |-> assetId, date |-> date, price |-> price]})

\* insert ... on conflict (asset_id, date) do update set price
UpsertQuote(table, assetId, date, price) ==
    LET hit == {r \in BagToSet(table) : r.assetId = assetId /\ r.date = date}
        rest == [r \in BagToSet(table) \ hit |-> table[r]]
        row == [assetId |-> assetId, date |-> date, price |-> price]
    IN  IF hit = {} THEN table (+) SetToBag({row})
        ELSE rest (+) (row :> SumOver([r \in hit |-> table[r]], hit))

\* Variant: a plain insert, no conflict target
InsertRate(table, date, type, buyPrice, sellPrice) ==
    table (+) SetToBag({[date |-> date, type |-> type, buyPrice |-> buyPrice,
                         sellPrice |-> sellPrice]})

\* Variant: the conflict target is the rate type alone
UpsertRateByType(table, date, type, buyPrice, sellPrice) ==
    LET rest == [r \in {x \in BagToSet(table) : x.type # type} |-> table[r]]
    IN  rest (+) SetToBag({[date |-> date, type |-> type, buyPrice |-> buyPrice,
                            sellPrice |-> sellPrice]})

\* insert ... on conflict (date, type) do update set buy_price, sell_price
UpsertRate(table, date, type, buyPrice, sellPrice) ==
    LET hit == {r \in BagToSet(table) : r.date = date /\ r.type = type}
        rest == [r \in BagToSet(table) \ hit |-> table[r]]
        row == [date |-> date, type |-> type, buyPrice |-> buyPrice, sellPrice |-> sellPrice]
    IN  IF hit = {} THEN table (+) SetToBag({row})
        ELSE rest (+) (row :> SumOver([r \in hit |-> table[r]], hit))

\* A JavaScript string used as a condition: null, undefined and "" are falsy
Truthy(x) == x # NULL /\ x # ""

\* How the store answers the writes of one stage: every write succeeds, or the
\* write after `after` successful ones throws
Never == [fails |-> FALSE, after |-> 0]
FailAfter(n) == [fails |-> TRUE, after |-> n]

ThrowsNow(fault) == fault.fails /\ fault.after = 0

OneLess(fault) == IF fault.fails THEN [fault EXCEPT !.after = @ - 1] ELSE fault

\* The store answering every read and write of a run
NoFault == [rates |-> Never, findCrypto |-> TRUE, crypto |-> Never, findYahoo |-> TRUE, yahoo |-> Never]

RECURSIVE RatesLoop(_, _, _, _)
\* for (const rate of rates) { upsert; updated++ }; threw: an upsert threw
RatesLoop(rates, day, acc, fault) ==
    IF rates = <<>> THEN acc
    ELSE IF ThrowsNow(fault) THEN [acc EXCEPT !.threw = TRUE]
    ELSE LET rate == Head(rates)
         IN  RatesLoop(Tail(rates), day,
                [acc EXCEPT !.dollarRates =
                                UpsertRate(@, day, rate.type, rate.buyPrice, rate.sellPrice),
                            !.writes = Append(@, [date |-> day, type |-> rate.type,
                                                  buyPrice |-> rate.buyPrice,
                                                  sellPrice |-> rate.sellPrice]),
                            !.updated = @ + 1],
                OneLess(fault))

\* Variant: the catch block marks the source and pushes nothing
StageFailedSilently(acc, source, label) ==
    [acc EXCEPT !.threw = FALSE, !.sources[source] = "error"]

\* catch (e) of a stage: the source is marked and one entry is pushed
StageFailed(acc, source, label) ==
    [acc EXCEPT !.threw = FALSE,
                !.sources[source] = "error",
                !.errors = Append(@, [source |-> label, ticker |-> NULL])]

\* 1. Sync dollar rates
RatesStage(fx, db, day, acc) ==
    LET got == FetchDollarRates(fx)
        called == [acc EXCEPT !.calls = @ \o got.calls]
        done == RatesLoop(got.rates, day, called, db.rates)
    IN  IF ~got.ok THEN StageFailed(called, "dolarapi", "Dollar rates")
        ELSE IF done.threw THEN StageFailed(done, "dolarapi", "Dollar rates")
        ELSE [done EXCEPT !.sources.dolarapi = "ok"]

RECURSIVE CryptoLoop(_, _, _, _, _)
\* for (const asset of cryptoAssets) if (asset.coingeckoId && prices[asset.coingeckoId])
CryptoLoop(list, prices, day, acc, fault) ==
    IF list = <<>> THEN acc
    ELSE LET id == Head(list)
             asset == assets[id]
             priced == Truthy(asset.coingeckoId) /\ asset.coingeckoId \in DOMAIN prices
         IN  IF ~priced THEN CryptoLoop(Tail(list), prices, day, acc, fault)
             ELSE IF ThrowsNow(fault) THEN [acc EXCEPT !.threw = TRUE]
             ELSE CryptoLoop(Tail(list), prices, day,
                     [acc EXCEPT !.quotes = UpsertQuote(@, id, day, prices[asset.coingeckoId]),
                                 !.writes = Append(@, [assetId |-> id, date |-> day,
                                                       price |-> prices[asset.coingeckoId]]),
                                 !.updated = @ + 1],
                     OneLess(fault))

\* 2. Sync crypto/stablecoins via CoinGecko
CryptoStage(cg, db, scan, day, acc) ==
    LET cryptoAssets == SelectSeq(scan, LAMBDA id : assets[id].type \in {"crypto", "stablecoin"})
        coingeckoIds == {x \in {assets[cryptoAssets[i]].coingeckoId : i \in 1..Len(cryptoAssets)} :
                            Truthy(x)}
        found == [acc EXCEPT !.calls = Append(@, "findCrypto")]
        called == [found EXCEPT !.calls = Append(@, "coingecko")]
        done == CryptoLoop(cryptoAssets, FetchCoinGecko(coingeckoIds, cg), day, called, db.crypto)
    IN  IF ~db.findCrypto THEN StageFailed(found, "coingecko", "CoinGecko")
        ELSE IF coingeckoIds = {} THEN [found EXCEPT !.sources.coingecko = "ok"]
        ELSE IF ~cg.ok THEN StageFailed(called, "coingecko", "CoinGecko")
        ELSE IF done.threw THEN StageFailed(done, "coingecko", "CoinGecko")
        ELSE [done EXCEPT !.sources.coingecko = "ok"]

RECURSIVE YahooLoop(_, _, _, _, _)
\* for (const asset of yahooAssets) { yahooDetails.push; upsert or errors.push }
YahooLoop(list, prices, day, acc, fault) ==
    IF list = <<>> THEN acc
    ELSE LET id == Head(list)
             asset == assets[id]
             known == Truthy(asset.yahooTicker) /\ asset.yahooTicker \in DOMAIN prices
             price == IF known THEN prices[asset.yahooTicker] ELSE 0
             detail == [ticker |-> asset.ticker, yahooTicker |-> asset.yahooTicker,
                        priced |-> known, price |-> price]
             seen == [acc EXCEPT !.yahoo = Append(@, detail)]
         IN  IF Truthy(asset.yahooTicker) /\ price # 0
             THEN IF ThrowsNow(fault) THEN [seen EXCEPT !.threw = TRUE]
                  ELSE YahooLoop(Tail(list), prices, day,
                          [seen EXCEPT !.quotes = UpsertQuote(@, id, day, price),
                                       !.writes = Append(@, [assetId |-> id, date |-> day,
                                                             price |-> price]),
                                       !.updated = @ + 1],
                          OneLess(fault))
             ELSE IF Truthy(asset.yahooTicker)
             THEN YahooLoop(Tail(list), prices, day,
                     [seen EXCEPT !.errors =
                         Append(@, [source |-> "Yahoo: No price", ticker |-> asset.ticker])],
                     fault)
             ELSE YahooLoop(Tail(list), prices, day,
                     [seen EXCEPT !.errors =
                         Append(@, [source |-> "Yahoo: no yahooTicker", ticker |-> asset.ticker])],
                     fault)

\* 3. Sync CEDEARs, Argentine stocks, and international stocks via Yahoo Finance
YahooStage(yahoo, db, scan, day, acc) ==
    LET yahooAssets == SelectSeq(scan, LAMBDA id : assets[id].type \in {"cedear", "arg_stock", "stock"})
        yahooTickers == {x \in {assets[yahooAssets[i]].yahooTicker : i \in 1..Len(yahooAssets)} :
                            Truthy(x)}
        found == [acc EXCEPT !.calls = Append(@, "findYahoo")]
        called == [found EXCEPT !.calls = Append(@, "yahoo")]
        done == YahooLoop(yahooAssets, FetchYahooQuotes(yahooTickers, yahoo), day, called, db.yahoo)
    IN  IF ~db.findYahoo THEN StageFailed(found, "yahoo", "Yahoo Finance")
        ELSE IF yahooTickers = {} THEN [found EXCEPT !.sources.yahoo = "ok"]
        ELSE IF done.threw THEN StageFailed(done, "yahoo", "Yahoo Finance")
        ELSE [done EXCEPT !.sources.yahoo = "ok"]

\* The handler's locals before the first stage; calls is the order in which the
\* run called the providers and read the asset table, writes the rows it
\* upserted, in order
SyncStart ==
    [quotes |-> quotes, dollarRates |-> dollarRates, updated |-> 0, errors |-> <<>>,
     sources |-> [dolarapi |-> "pending", coingecko |-> "pending", yahoo |-> "pending"],
     yahoo |-> <<>>, threw |-> FALSE, calls |-> <<>>, writes |-> <<>>]

\* Variant: the run stops at the first stage that failed
SyncRunAborting(in, scan, day) ==
    LET rates == RatesStage(in.fx, in.db, day, SyncStart)
        crypto == CryptoStage(in.cg, in.db, scan, day, rates)
    IN  IF rates.sources.dolarapi = "error" THEN rates
        ELSE IF crypto.sources.coingecko = "error" THEN crypto
        ELSE YahooStage(in.yahoo, in.db, scan, day, crypto)

\* The three stages in order; `in` is what the providers and the store answer,
\* `scan` the order in which findMany returns the asset rows
SyncRun(in, scan, day) ==
    YahooStage(in.yahoo, in.db, scan, day,
        CryptoStage(in.cg, in.db, scan, day,
            RatesStage(in.fx, in.db, day, SyncStart)))

Sync(u, in, scan) ==
    /\ req' = [op |-> "sync", user |-> u, day |-> today, input |-> in,
               \* history: this run repeats the run just before it (same day, same answers)
               rerun |-> resp.kind = "sync" /\ req.day = today /\ req.input = in,
               \* history: the calls the run made, in order
               calls |-> IF u = NoUser THEN <<>> ELSE SyncRun(in, scan, today).calls]
    /\ IF u = NoUser
       THEN /\ resp' = Unauthorized
            /\ UNCHANGED <<quotes, dollarRates>>
       ELSE LET end == SyncRun(in, scan, today)
            IN  /\ quotes' = end.quotes
                /\ dollarRates' = end.dollarRates
                /\ resp' = [kind |-> "sync", status |-> 200, updated |-> end.updated,
                            errors |-> end.errors, sources |-> end.sources,
                            yahoo |-> end.yahoo]
    /\ UNCHANGED <<assets, txs, today, pending>>

\* ------------------------------------------------------- assets (CRUD)
\* The ids the asset table hands out, in the order it hands them out
AssetOrder == <<"a1", "a2", "a3", "a4", "a5", "a6">>

\* defaultRandom(): an id no row of the table has
FreshAssetId ==
    AssetOrder[CHOOSE i \in 1..Len(AssetOrder) :
                  /\ AssetOrder[i] \notin AssetIds
                  /\ \A j \in 1..(i - 1) : AssetOrder[j] \in AssetIds]

\* findMany over the asset table, here in id order
ScanNow == SelectSeq(AssetOrder, LAMBDA id : id \in AssetIds)

\* v.toUpperCase() on the tickers the requests carry
ToUpperCase(t) == IF t = "eth" THEN "ETH" ELSE t

\* `${ticker}.BA` on the tickers the requests carry
DotBA(t) ==
    CASE t = "MELI" -> "MELI.BA"
      [] t = "AAPL" -> "AAPL.BA"
      [] t = "GGAL" -> "GGAL.BA"
      [] t = "ETH" -> "ETH.BA"
      [] t = "DAI" -> "DAI.BA"
      [] t = "KO" -> "KO.BA"

EquityTypes == {"cedear", "arg_stock", "stock"}

CryptoTypes == {"crypto", "stablecoin"}

\* createAssetSchema; a field the body leaves out is NULL
ValidAsset(body) ==
    /\ body.ticker # NULL /\ body.ticker # ""
    /\ body.name # NULL /\ body.name # ""
    /\ body.type \in EquityTypes \cup CryptoTypes
    /\ body.currency \in {"ARS", "USD", NULL}

\* The row POST inserts: ticker upper-cased, currency defaulted, yahooTicker and
\* underlyingTicker generated from the type
NewAsset(body) ==
    LET ticker == ToUpperCase(body.ticker)
    IN  [ticker |-> ticker, name |-> body.name, type |-> body.type,
         currency |-> IF body.type = "stock" THEN "USD"
                      ELSE IF body.currency = NULL THEN "ARS" ELSE body.currency,
         yahooTicker |-> IF Truthy(body.yahooTicker) THEN body.yahooTicker
                         ELSE IF body.type \in {"cedear", "arg_stock"} THEN DotBA(ticker)
                         ELSE IF body.type = "stock" THEN ticker
                         ELSE body.yahooTicker,
         coingeckoId |-> body.coingeckoId,
         underlyingTicker |-> IF ~Truthy(body.underlyingTicker) /\ body.type = "cedear"
                              THEN ticker ELSE body.underlyingTicker]

\* "Sync price for the newly created asset": the price the try block stores, if any
InitialQuote(body, row, in) ==
    IF Truthy(row.yahooTicker) /\ body.type \in EquityTypes
    THEN FetchYahooQuote(row.yahooTicker, in.yahoo)
    ELSE IF Truthy(body.coingeckoId) /\ body.type \in CryptoTypes
    THEN IF in.cg.ok /\ body.coingeckoId \in DOMAIN FetchCoinGecko({body.coingeckoId}, in.cg)
         THEN [ok |-> TRUE, price |-> FetchCoinGecko({body.coingeckoId}, in.cg)[body.coingeckoId]]
         ELSE [ok |-> FALSE, price |-> 0]
    ELSE [ok |-> FALSE, price |-> 0]

\* The response of POST /api/assets: the row, latestPrice and quoteDate (0: null)
AssetCreated(id, row, quote) ==
    [kind |-> "asset", status |-> 200, id |-> id, asset |-> row,
     latestPrice |-> quote,
     quoteDate |-> IF quote.ok /\ quote.price # 0 THEN today ELSE 0]

\* What POST /api/assets answers before it writes anything, "go" when it writes
AssetRefusal(u, body) ==
    IF u = NoUser THEN Unauthorized
    ELSE IF ~ValidAsset(body) THEN [kind |-> "error", status |-> 400]
    ELSE IF \E a \in AssetIds : /\ assets[a].ticker = ToUpperCase(body.ticker)
                               /\ assets[a].type = body.type
    THEN [kind |-> "error", status |-> 409]
    ELSE [kind |-> "go", status |-> 0]

\* POST /api/assets
CreateAsset(u, body, in) ==
    /\ Cardinality(AssetIds) < MaxAssets
    /\ req' = [op |-> "createAsset", user |-> u]
    /\ IF AssetRefusal(u, body).kind # "go"
       THEN /\ resp' = AssetRefusal(u, body)
            /\ UNCHANGED <<assets, quotes>>
       ELSE LET id == FreshAssetId
                row == NewAsset(body)
                quote == InitialQuote(body, row, in)
            IN  /\ assets' = assets @@ (id :> row)
                /\ quotes' = IF quote.ok THEN UpsertQuote(quotes, id, today, quote.price)
                             ELSE quotes
                /\ resp' = AssetCreated(id, row, quote)
    /\ UNCHANGED <<txs, dollarRates, today, pending>>

\* createAssetSchema.partial(): the fields of the patch, each valid for its field
ValidPatch(patch) ==
    /\ DOMAIN patch \subseteq {"ticker", "name", "type", "currency", "yahooTicker",
                               "coingeckoId", "underlyingTicker"}
    /\ "ticker" \in DOMAIN patch => patch["ticker"] # ""
    /\ "name" \in DOMAIN patch => patch["name"] # ""
    /\ "type" \in DOMAIN patch => patch["type"] \in EquityTypes \cup CryptoTypes
    /\ "currency" \in DOMAIN patch => patch["currency"] \in {"ARS", "USD"}

\* update(assets).set(parsed.data): the fields of the parsed patch replace the
\* row's; `defaulted`: the schema library fills the currency default into a
\* patch that leaves the currency out (it depends on the library's version)
Patched(row, patch, defaulted) ==
    [f \in DOMAIN row |->
        IF f \in DOMAIN patch
        THEN IF f = "ticker" THEN ToUpperCase(patch[f]) ELSE patch[f]
        ELSE IF f = "currency" /\ defaulted THEN "ARS"
        ELSE row[f]]

\* PUT /api/assets?id=
UpdateAsset(u, id, patch, defaulted) ==
    /\ req' = [op |-> "updateAsset", user |-> u]
    /\ IF u = NoUser
       THEN /\ resp' = Unauthorized
            /\ UNCHANGED assets
       ELSE IF ~ValidPatch(patch)
       THEN /\ resp' = [kind |-> "error", status |-> 400]
            /\ UNCHANGED assets
       ELSE IF DOMAIN patch = {} /\ ~defaulted
       THEN \* set({}): the query builder throws, nothing to set
            /\ resp' = [kind |-> "error", status |-> 500]
            /\ UNCHANGED assets
       ELSE IF id \notin AssetIds
       THEN /\ resp' = [kind |-> "error", status |-> 404]
            /\ UNCHANGED assets
       ELSE IF \E a \in AssetIds \ {id} :
                   /\ assets[a].ticker = Patched(assets[id], patch, defaulted).ticker
                   /\ assets[a].type = Patched(assets[id], patch, defaulted).type
       THEN \* unique_ticker_type: the update throws
            /\ resp' = [kind |-> "error", status |-> 500]
            /\ UNCHANGED assets
       ELSE /\ assets' = [assets EXCEPT ![id] = Patched(@, patch, defaulted)]
            /\ resp' = [kind |-> "asset", status |-> 200, id |-> id,
                        asset |-> Patched(assets[id], patch, defaulted)]
    /\ UNCHANGED <<txs, quotes, dollarRates, today, pending>>

\* transactions.asset_id references assets.id, onDelete "restrict"
Unrestricted(id) == FALSE

Restricted(id) == \E t \in txs : t.assetId = id

\* quotes.asset_id references assets.id, onDelete "cascade"
Cascade(table, id) ==
    [row \in {r \in BagToSet(table) : r.assetId # id} |-> table[row]]

\* DELETE /api/assets?id= ; an id the URL leaves out is NULL
DeleteAsset(u, id) ==
    /\ req' = [op |-> "deleteAsset", user |-> u, id |-> id]
    /\ IF u = NoUser
       THEN /\ resp' = Unauthorized
            /\ UNCHANGED <<assets, quotes>>
       ELSE IF id = NULL
       THEN /\ resp' = [kind |-> "error", status |-> 400]
            /\ UNCHANGED <<assets, quotes>>
       ELSE IF Restricted(id)
       THEN \* the delete throws; the catch block answers
            /\ resp' = [kind |-> "error", status |-> 409]
            /\ UNCHANGED <<assets, quotes>>
       ELSE IF id \notin AssetIds
       THEN /\ resp' = [kind |-> "error", status |-> 404]
            /\ UNCHANGED <<assets, quotes>>
       ELSE /\ assets' = [a \in AssetIds \ {id} |-> assets[a]]
            /\ quotes' = Cascade(quotes, id)
            /\ resp' = [kind |-> "deleted", status |-> 200]
    /\ UNCHANGED <<txs, dollarRates, today, pending>>

\* ------------------------------------------- handlers one statement at a time
\* A handler in flight holds a slot; its statements on the store interleave with
\* those of the other handlers in flight
Slots == {"s1", "s2"}

Free(slot) == \A p \in pending : p.slot # slot

InFlight(slot) == CHOOSE p \in pending : p.slot = slot

\* The handler's locals between two stages: the rows of the stage to come are
\* those the stage logs in writes
Cleared(acc) == [acc EXCEPT !.quotes = EmptyBag, !.dollarRates = EmptyBag, !.writes = <<>>]

\* POST /api/quotes/sync up to the first upsert: today is read, the FX adapter called
BeginSync(slot, in) ==
    /\ Free(slot)
    /\ LET acc == RatesStage(in.fx, in.db, today, Cleared(SyncStart))
       IN  pending' = pending \cup
                {[slot |-> slot, op |-> "sync", day |-> today, input |-> in, stage |-> "rates",
                  acc |-> Cleared(acc), todo |-> acc.writes]}
    /\ UNCHANGED <<store, today, req, resp>>

\* One insert ... on conflict do update of a handler in flight
WriteRow(slot) ==
    /\ ~Free(slot)
    /\ InFlight(slot).todo # <<>>
    /\ LET row == Head(InFlight(slot).todo)
       IN /\ IF "assetId" \in DOMAIN row
             THEN /\ quotes' = UpsertQuote(quotes, row.assetId, row.date, row.price)
                  /\ UNCHANGED dollarRates
             ELSE /\ dollarRates' = UpsertRate(dollarRates, row.date, row.type,
                                               row.buyPrice, row.sellPrice)
                  /\ UNCHANGED quotes
          /\ pending' = (pending \ {InFlight(slot)})
                            \cup {[InFlight(slot) EXCEPT !.todo = Tail(@)]}
    /\ UNCHANGED <<assets, txs, today, req, resp>>

\* The sync in flight leaves a stage: it reads the asset table and calls the
\* next provider
NextStage(slot) ==
    /\ ~Free(slot)
    /\ InFlight(slot).op = "sync"
    /\ InFlight(slot).todo = <<>>
    /\ InFlight(slot).stage \in {"rates", "crypto"}
    /\ LET p == InFlight(slot)
           acc == IF p.stage = "rates"
                  THEN CryptoStage(p.input.cg, p.input.db, ScanNow, p.day, p.acc)
                  ELSE YahooStage(p.input.yahoo, p.input.db, ScanNow, p.day, p.acc)
       IN  pending' = (pending \ {p})
                \cup {[p EXCEPT !.stage = IF p.stage = "rates" THEN "crypto" ELSE "yahoo",
                                !.acc = Cleared(acc), !.todo = acc.writes]}
    /\ UNCHANGED <<store, today, req, resp>>

\* The handler in flight returns its response
Finish(slot) ==
    /\ ~Free(slot)
    /\ InFlight(slot).todo = <<>>
    /\ InFlight(slot).op = "sync" => InFlight(slot).stage = "yahoo"
    /\ LET p == InFlight(slot)
       IN  /\ pending' = pending \ {p}
           /\ IF p.op = "sync"
              THEN /\ req' = [op |-> "sync", user |-> "u1", day |-> p.day, input |-> p.input,
                              rerun |-> FALSE, calls |-> p.acc.calls]
                   /\ resp' = [kind |-> "sync", status |-> 200, updated |-> p.acc.updated,
                               errors |-> p.acc.errors, sources |-> p.acc.sources,
                               yahoo |-> p.acc.yahoo]
              ELSE /\ req' = [op |-> "createAsset", user |-> "u1"]
                   /\ resp' = p.answer
    /\ UNCHANGED <<store, today>>

\* POST /api/assets up to the upsert of the initial quote
BeginCreateAsset(slot, body, in) ==
    /\ Free(slot)
    /\ Cardinality(AssetIds) < MaxAssets
    /\ IF AssetRefusal("u1", body).kind # "go"
       THEN /\ req' = [op |-> "createAsset", user |-> "u1"]
            /\ resp' = AssetRefusal("u1", body)
            /\ UNCHANGED <<assets, pending>>
       ELSE LET id == FreshAssetId
                row == NewAsset(body)
                quote == InitialQuote(body, row, in)
            IN  /\ assets' = assets @@ (id :> row)
                /\ pending' = pending \cup
                      {[slot |-> slot, op |-> "createAsset",
                        todo |-> IF quote.ok
                                 THEN <<[assetId |-> id, date |-> today, price |-> quote.price]>>
                                 ELSE <<>>,
                        answer |-> AssetCreated(id, row, quote)]}
                /\ UNCHANGED <<req, resp>>
    /\ UNCHANGED <<txs, quotes, dollarRates, today>>

\* unique("unique_ticker_type").on(ticker, type): some row but `id` has the pair
Duplicate(row, id) ==
    \E a \in AssetIds \ {id} : assets[a].ticker = row.ticker /\ assets[a].type = row.type

\* POST /api/assets up to the insert: the body is validated and the table
\* searched for the pair
BeginPostAsset(slot, u, body) ==
    /\ Free(slot)
    /\ IF AssetRefusal(u, body).kind # "go"
       THEN /\ req' = [op |-> "createAsset", user |-> u]
            /\ resp' = AssetRefusal(u, body)
            /\ UNCHANGED pending
       ELSE /\ pending' = pending \cup {[slot |-> slot, op |-> "postAsset", user |-> u,
                                         body |-> body]}
            /\ UNCHANGED <<req, resp>>
    /\ UNCHANGED <<store, today>>

\* POST /api/assets from the insert on: a pair taken since the search makes
\* the insert throw, and the outer catch block answers
FinishPostAsset(slot, in) ==
    /\ ~Free(slot)
    /\ InFlight(slot).op = "postAsset"
    /\ LET p == InFlight(slot)
           id == FreshAssetId
           row == NewAsset(p.body)
           quote == InitialQuote(p.body, row, in)
       IN  /\ Duplicate(row, NULL) \/ Cardinality(AssetIds) < MaxAssets
           /\ req' = [op |-> "createAsset", user |-> p.user]
           /\ IF Duplicate(row, NULL)
              THEN /\ resp' = [kind |-> "error", status |-> 500]
                   /\ UNCHANGED <<assets, quotes>>
              ELSE /\ assets' = assets @@ (id :> row)
                   /\ quotes' = IF quote.ok THEN UpsertQuote(quotes, id, today, quote.price)
                                ELSE quotes
                   /\ resp' = AssetCreated(id, row, quote)
           /\ pending' = pending \ {p}
    /\ UNCHANGED <<txs, dollarRates, today>>

\* Variant: the row is looked up by id alone
FoundById(u, id) == \E t \in txs : t.id = id

\* "Verify ownership": findFirst by id, then existing.userId === session.user.id
OwnedBy(u, id) == \E t \in txs : t.id = id /\ t.userId = u

\* What PUT /api/transactions answers before it writes anything, "go" when it writes
UpdateRefusal(u, id, body) ==
    IF u = NoUser THEN Unauthorized
    ELSE IF ~OwnedBy(u, id) THEN [kind |-> "error", status |-> 404]
    ELSE IF ~ValidTransaction(body) THEN [kind |-> "error", status |-> 400]
    ELSE [kind |-> "go", status |-> 0]

\* PUT /api/transactions?id= up to the update: the row is read and its owner compared
BeginUpdateTransaction(slot, u, id, body) ==
    /\ Free(slot)
    /\ IF UpdateRefusal(u, id, body).kind # "go"
       THEN /\ req' = [op |-> "updateTransaction", user |-> u, txId |-> id]
            /\ resp' = UpdateRefusal(u, id, body)
            /\ UNCHANGED pending
       ELSE /\ pending' = pending \cup
                {[slot |-> slot, op |-> "updateTransaction", user |-> u, txId |-> id,
                  body |-> body]}
            /\ UNCHANGED <<req, resp>>
    /\ UNCHANGED <<store, today>>

\* update(transactions).set({...}).where(id): the fields of the body, the owner kept;
\* with no row left of that id nothing is updated and `result` is undefined
FinishUpdateTransaction(slot) ==
    /\ ~Free(slot)
    /\ InFlight(slot).op = "updateTransaction"
    /\ LET p == InFlight(slot)
           hit == {t \in txs : t.id = p.txId}
       IN  /\ pending' = pending \ {p}
           /\ req' = [op |-> "updateTransaction", user |-> p.user, txId |-> p.txId]
           /\ IF p.body.assetId \notin AssetIds
              THEN /\ resp' = [kind |-> "error", status |-> 500]
                   /\ UNCHANGED txs
              ELSE IF hit = {}
              THEN /\ \E status \in {200, 500} : resp' = [kind |-> "empty", status |-> status]
                   /\ UNCHANGED txs
              ELSE /\ txs' = (txs \ hit) \cup {TxRow(t.id, t.userId, p.body) : t \in hit}
                   /\ resp' = [kind |-> "transaction", status |-> 200, id |-> p.txId]
    /\ UNCHANGED <<assets, quotes, dollarRates, today>>

\* DELETE /api/transactions?id= up to the delete
BeginDeleteTransaction(slot, u, id) ==
    /\ Free(slot)
    /\ IF u = NoUser \/ ~OwnedBy(u, id)
       THEN /\ req' = [op |-> "deleteTransaction", user |-> u, txId |-> id]
            /\ resp' = IF u = NoUser THEN Unauthorized ELSE [kind |-> "error", status |-> 404]
            /\ UNCHANGED pending
       ELSE /\ pending' = pending \cup
                {[slot |-> slot, op |-> "deleteTransaction", user |-> u, txId |-> id,
                  body |-> NULL]}
            /\ UNCHANGED <<req, resp>>
    /\ UNCHANGED <<store, today>>

\* delete(transactions).where(id)
FinishDeleteTransaction(slot) ==
    /\ ~Free(slot)
    /\ InFlight(slot).op = "deleteTransaction"
    /\ LET p == InFlight(slot)
       IN  /\ pending' = pending \ {p}
           /\ req' = [op |-> "deleteTransaction", user |-> p.user, txId |-> p.txId]
           /\ txs' = {t \in txs : t.id # p.txId}
           /\ resp' = [kind |-> "deleted", status |-> 200]
    /\ UNCHANGED <<assets, quotes, dollarRates, today>>

\* GET /api/portfolio up to the response: the queries are made and the summary
\* is computed from their rows
BeginGetPortfolio(slot, u, order, sel) ==
    /\ Free(slot)
    /\ IF u = NoUser
       THEN /\ req' = [op |-> "portfolio", user |-> u]
            /\ resp' = Unauthorized
            /\ UNCHANGED pending
       ELSE /\ pending' = pending \cup
                {[slot |-> slot, op |-> "portfolio", user |-> u, order |-> order, sel |-> sel,
                  answer |-> Summary(u, order, sel)]}
            /\ UNCHANGED <<req, resp>>
    /\ UNCHANGED <<store, today>>

\* return NextResponse.json({...})
FinishGetPortfolio(slot) ==
    /\ ~Free(slot)
    /\ InFlight(slot).op = "portfolio"
    /\ req' = [op |-> "portfolio", user |-> InFlight(slot).user]
    /\ resp' = InFlight(slot).answer
    /\ pending' = pending \ {InFlight(slot)}
    /\ UNCHANGED <<store, today>>

\* ------------------------------------- the equity adapter, request by request
\* The events a batch logs: a request sent, its response, a delay() waited out
Event(kind, ticker, attempt, ms, outcome) ==
    [kind |-> kind, ticker |-> ticker, attempt |-> attempt, ms |-> ms, outcome |-> outcome]

\* fetchYahooQuotes(yahooTickers) before its first request
BeginFetchYahooQuotes(slot, tickers) ==
    /\ Free(slot)
    /\ pending' = pending \cup
          {[slot |-> slot, op |-> "fetchYahooQuotes", tickers |-> tickers, i |-> 1,
            attempt |-> 0, awaiting |-> FALSE, log |-> <<>>, results |-> <<>>]}
    /\ UNCHANGED <<store, today, req, resp>>

\* Variant: no delay between two tickers
BeforeRequestAtOnce(p) == <<>>

\* if (i > 0) await delay(1000), before the first request of every ticker but the first
BeforeRequest(p) ==
    IF p.i > 1 /\ p.attempt = 0
    THEN <<Event("wait", p.tickers[p.i], 0, BatchDelay, "")>>
    ELSE <<>>

\* await fetch(url, {signal}): the request for the ticker at hand goes out
SendYahooRequest(slot) ==
    /\ ~Free(slot)
    /\ InFlight(slot).op = "fetchYahooQuotes"
    /\ ~InFlight(slot).awaiting
    /\ InFlight(slot).i <= Len(InFlight(slot).tickers)
    /\ LET p == InFlight(slot)
       IN  pending' = (pending \ {p}) \cup
              {[p EXCEPT !.awaiting = TRUE,
                         !.log = @ \o BeforeRequest(p)
                                   \o <<Event("request", p.tickers[p.i], p.attempt + 1, 0, "")>>]}
    /\ UNCHANGED <<store, today, req, resp>>

\* return null, or the end of the for loop: the batch goes on to the next ticker
GiveUp(p) == [p EXCEPT !.i = @ + 1, !.attempt = 0]

\* Variant: `continue` without the loop's attempt++
RetryForever(p, ms) ==
    [p EXCEPT !.log = Append(@, Event("wait", p.tickers[p.i], p.attempt + 1, ms, ""))]

\* await delay(ms); continue: the loop's attempt++, and its end after the last attempt
Retry(p, ms) ==
    LET waited == [p EXCEPT !.log = Append(@, Event("wait", p.tickers[p.i], p.attempt + 1, ms, ""))]
    IN  IF p.attempt < Retries THEN [waited EXCEPT !.attempt = @ + 1] ELSE GiveUp(waited)

\* Variant: the same delay after every rate-limited attempt
RateLimitWaitFlat(attempt) == RateLimitDelay

\* delay(3000 * (attempt + 1))
RateLimitWait(attempt) == RateLimitDelay * (attempt + 1)

\* The rest of one pass of the loop of fetchYahooQuote, the outcome of the request known
Answered(p, o) ==
    IF o.kind = "ratelimit" THEN Retry(p, RateLimitWait(p.attempt))
    ELSE IF o.kind \in {"http", "badjson", "throw"}
    THEN IF p.attempt < Retries THEN Retry(p, RetryDelay) ELSE GiveUp(p)
    ELSE IF o.kind \in {"nometa", "noprice"} THEN GiveUp(p)
    ELSE [GiveUp(p) EXCEPT !.results = (p.tickers[p.i] :> o.price) @@ @]

\* The request is answered, times out or fails
ReceiveYahooResponse(slot, o) ==
    /\ ~Free(slot)
    /\ InFlight(slot).op = "fetchYahooQuotes"
    /\ InFlight(slot).awaiting
    /\ LET p == InFlight(slot)
           heard == [p EXCEPT !.awaiting = FALSE,
                              !.log = Append(@, Event("response", p.tickers[p.i],
                                                      p.attempt + 1, 0, o.kind))]
       IN  pending' = (pending \ {p}) \cup {Answered(heard, o)}
    /\ UNCHANGED <<store, today, req, resp>>

\* return results
FinishFetchYahooQuotes(slot) ==
    /\ ~Free(slot)
    /\ InFlight(slot).op = "fetchYahooQuotes"
    /\ ~InFlight(slot).awaiting
    /\ InFlight(slot).i > Len(InFlight(slot).tickers)
    /\ req' = [op |-> "fetchYahooQuotes", user |-> NoUser, tickers |-> InFlight(slot).tickers]
    /\ resp' = [kind |-> "quotes", status |-> 200, prices |-> InFlight(slot).results,
                log |-> InFlight(slot).log]
    /\ pending' = pending \ {InFlight(slot)}
    /\ UNCHANGED <<store, today>>

\* ------------------------------------------------------------ the inputs
Body(a, d, type, q, p) ==
    [assetId |-> a, date |-> d, type |-> type, quantity |-> q, unitPrice |-> p, fee |-> 0]

\* Request bodies of the ledger specification
LedgerBodies(u) ==
    IF u = "u1"
    THEN {Body("a1", 1, "buy", 10, 100), Body("a1", 1, "buy", 10, 200),
          Body("a1", 1, "sell", 10, 150), Body("a1", 2, "sell", 10, 150),
          Body("a2", 1, "buy", 5, 200), Body("a3", 1, "buy", 10, 100),
          Body("a3", 1, "buy", 0, 100)}
    ELSE {Body("a1", 1, "buy", 10, 200)}

Casa(type, buy, sell) == [casa |-> type, compra |-> buy, venta |-> sell]

Value(buy, sell) == [value_buy |-> buy, value_sell |-> sell]

\* The primary FX provider answers with the rate types the rates table is
\* documented to hold; the fallback with oficial and blue
PrimaryOk(base) ==
    [ok |-> TRUE,
     data |-> <<Casa("oficial", base, base + 1), Casa("mep", base + 2, base + 3),
                Casa("blue", base + 4, base + 5),
                Casa("contadoconliqui", base + 6, base + 7)>>]

FallbackOk(base) ==
    [ok |-> TRUE, data |-> ("oficial" :> Value(base, base + 1)) @@ ("blue" :> Value(base + 4, base + 5))]

Down == [ok |-> FALSE]

Ok(price) == [kind |-> "ok", price |-> price]
Fail(kind) == [kind |-> kind, price |-> 0]

\* What the providers answer on day d in the ledger specification: every source
\* up, GGAL.BA timing out on day 1
DayInput(d) ==
    [fx |-> [primary |-> PrimaryOk(2 * d + 1), fallback |-> Down],
     cg |-> [ok |-> TRUE, data |-> ("bitcoin" :> (150 - 30 * d))],
     yahoo |-> ("AAPL.BA" :> <<Ok(270 - 90 * d), Ok(0), Ok(0)>>)
               @@ ("GGAL.BA" :> IF d = 1 THEN <<Fail("throw"), Fail("throw"), Fail("throw")>>
                                ELSE <<Fail("ratelimit"), Ok(220), Ok(0)>>),
     db |-> NoFault]

\* findMany in primary-key order
ScanById == <<"a1", "a2", "a3">>

\* --------------------------------------------------- ledger specification
Create == \E u \in Users : \E body \in LedgerBodies(u) : CreateTransaction(u, body)

Update ==
    \E u \in Users : \E id \in TxIds : \E body \in LedgerBodies(u) :
        UpdateTransaction(u, id, body)

Delete == \E u \in Users : \E id \in TxIds : DeleteTransaction(u, id)

Portfolio ==
    \E u \in Users \cup {NoUser} : \E order \in GroupOrders(u) : \E sel \in RateSelections :
        GetPortfolio(u, order, sel)

SyncDay == Sync("u1", DayInput(today), ScanById)

Next == Create \/ Update \/ Delete \/ Portfolio \/ SyncDay

\* ---------------------------------------------------- quotes specification
QuoteBodies == {Body("a1", 1, "buy", 10, 100), Body("a1", 1, "buy", 10, 200), Body("a2", 1, "buy", 5, 200)}

CreateBuy == \E body \in QuoteBodies : CreateTransaction("u1", body)

PortfolioOfU1 ==
    \E order \in GroupOrders("u1") : \E sel \in RateSelections : GetPortfolio("u1", order, sel)

SyncToday == Sync("u1", DayInput(today), ScanById)

NextDay == Tick(MaxDay)

NextQuotes == CreateBuy \/ PortfolioOfU1 \/ SyncToday \/ NextDay

SpecQuotes == Init /\ [][NextQuotes]_vars

\* ------------------------------------------------ cost-basis specification
\* One user's ledger of buys and sells, created, amended and removed
CostBodies ==
    {Body("a1", 1, "buy", 10, 100), Body("a1", 1, "buy", 10, 200), Body("a1", 2, "buy", 10, 100),
     Body("a1", 1, "sell", 10, 150), Body("a1", 2, "sell", 5, 300), Body("a2", 1, "buy", 5, 200)}

Record == \E body \in CostBodies : CreateTransaction("u1", body)

Amend == \E id \in TxIds : \E body \in CostBodies : UpdateTransaction("u1", id, body)

Remove == \E id \in TxIds : DeleteTransaction("u1", id)

Valuation ==
    \E order \in GroupOrders("u1") : \E sel \in RateSelections : GetPortfolio("u1", order, sel)

NextCost == Record \/ Amend \/ Remove \/ Valuation

SpecCost == Init /\ [][NextCost]_vars

\* ------------------------------------------------- FX-rate specification
\* Only the FX providers answer; the crypto provider is down and the equity
\* provider times out on every request
NoQuotes ==
    [cg |-> Down,
     yahoo |-> [t \in {"AAPL.BA", "GGAL.BA"} |-> <<Fail("throw"), Fail("throw"), Fail("throw")>>]]

\* On day d: the primary provider up, or down with the fallback up, or both down
FxAnswers(d) ==
    {[primary |-> PrimaryOk(10 * d), fallback |-> Down],
     [primary |-> Down, fallback |-> FallbackOk(10 * d)],
     [primary |-> Down, fallback |-> Down]}

FxBuy == txs = {} /\ CreateTransaction("u1", Body("a1", 1, "buy", 10, 100))

FxSync ==
    \E fx \in FxAnswers(today) :
        Sync("u1", [fx |-> fx, cg |-> NoQuotes.cg, yahoo |-> NoQuotes.yahoo, db |-> NoFault], ScanById)

FxNextDay == Tick(MaxDayFx)

FxPortfolio ==
    \E order \in GroupOrders("u1") : \E sel \in RateSelections : GetPortfolio("u1", order, sel)

NextFx == FxBuy \/ FxSync \/ FxNextDay \/ FxPortfolio

SpecFx == Init /\ [][NextFx]_vars

\* ---------------------------------------------------- sync specification
AllThrow == <<Fail("throw"), Fail("throw"), Fail("throw")>>

\* What the providers may answer to one run: every source up (two sets of
\* prices), the primary FX provider down with one equity ticker rate-limited
\* and the other without a price, every source down
SyncInputs ==
    {[fx |-> [primary |-> PrimaryOk(10), fallback |-> Down],
      cg |-> [ok |-> TRUE, data |-> ("bitcoin" :> 100)],
      yahoo |-> ("AAPL.BA" :> <<Ok(180), Ok(0), Ok(0)>>) @@ ("GGAL.BA" :> <<Ok(50), Ok(0), Ok(0)>>),
      db |-> NoFault],
     [fx |-> [primary |-> PrimaryOk(20), fallback |-> Down],
      cg |-> [ok |-> TRUE, data |-> ("bitcoin" :> 120)],
      yahoo |-> ("AAPL.BA" :> <<Fail("http"), Fail("badjson"), Ok(190)>>)
                @@ ("GGAL.BA" :> <<Ok(50), Ok(0), Ok(0)>>),
      db |-> NoFault],
     [fx |-> [primary |-> Down, fallback |-> FallbackOk(30)],
      cg |-> [ok |-> TRUE, data |-> ("bitcoin" :> 0)],
      yahoo |-> ("AAPL.BA" :> <<Fail("ratelimit"), Fail("ratelimit"), Ok(200)>>)
                @@ ("GGAL.BA" :> <<Fail("noprice"), Ok(60), Ok(60)>>),
      db |-> NoFault],
     [fx |-> [primary |-> Down, fallback |-> Down],
      cg |-> Down,
      yahoo |-> ("AAPL.BA" :> AllThrow) @@ ("GGAL.BA" :> <<Fail("nometa"), Ok(60), Ok(60)>>),
      db |-> NoFault]}

\* findMany has no ORDER BY
ScanOrders == {ScanById, <<"a3", "a2", "a1">>}

SyncAny ==
    \E u \in {"u1", NoUser} : \E in \in SyncInputs : \E scan \in ScanOrders : Sync(u, in, scan)

Midnight == Tick(MaxDay)

NextSync == SyncAny \/ Midnight

SpecSync == Init /\ [][NextSync]_vars

\* ---------------------------------------------------- store specification
\* Syncs and asset creations in flight together, the clock passing midnight
AssetBody(ticker, name, type, currency, yahooTicker, coingeckoId) ==
    [ticker |-> ticker, name |-> name, type |-> type, currency |-> currency,
     yahooTicker |-> yahooTicker, coingeckoId |-> coingeckoId, underlyingTicker |-> NULL]

StoreBodies ==
    {AssetBody("MELI", "MercadoLibre", "cedear", NULL, NULL, NULL)}

\* What the providers answer to a sync: the fallback FX provider with the
\* oficial rate alone and one equity price, or the crypto prices alone
StoreInputs ==
    {[fx |-> [primary |-> Down, fallback |-> [ok |-> TRUE, data |-> ("oficial" :> Value(10, 11))]],
      cg |-> Down,
      yahoo |-> ("AAPL.BA" :> AllThrow) @@ ("GGAL.BA" :> AllThrow)
                @@ ("MELI.BA" :> <<Fail("ratelimit"), Ok(70), Ok(0)>>),
      db |-> NoFault],
     [fx |-> [primary |-> Down, fallback |-> Down],
      cg |-> [ok |-> TRUE, data |-> ("bitcoin" :> 100) @@ ("ethereum" :> 50)],
      yahoo |-> ("AAPL.BA" :> AllThrow) @@ ("GGAL.BA" :> AllThrow) @@ ("MELI.BA" :> AllThrow),
      db |-> NoFault]}

\* What the providers answer to the initial price sync of a created asset
CreateInput ==
    [cg |-> [ok |-> TRUE, data |-> ("ethereum" :> 55)],
     yahoo |-> ("MELI.BA" :> <<Ok(75), Ok(0), Ok(0)>>)]

StartSync == \E slot \in Slots : \E in \in StoreInputs : BeginSync(slot, in)

StartAsset ==
    \E slot \in Slots : \E body \in StoreBodies : BeginCreateAsset(slot, body, CreateInput)

Write == \E slot \in Slots : WriteRow(slot)

Stage == \E slot \in Slots : NextStage(slot)

Return == \E slot \in Slots : Finish(slot)

StoreMidnight == Tick(MaxDay)

NextStore == StartSync \/ StartAsset \/ Write \/ Stage \/ Return \/ StoreMidnight

SpecStore == Init /\ [][NextStore]_vars

\* ---------------------------------------------------- fault specification
\* One sync after the other on one day; providers and store fail in every stage
Faults ==
    {NoFault,
     [NoFault EXCEPT !.rates = FailAfter(0)],
     [NoFault EXCEPT !.rates = FailAfter(1)],
     [NoFault EXCEPT !.findCrypto = FALSE],
     [NoFault EXCEPT !.crypto = FailAfter(0)],
     [NoFault EXCEPT !.findYahoo = FALSE],
     [NoFault EXCEPT !.yahoo = FailAfter(1)],
     [rates |-> FailAfter(0), findCrypto |-> FALSE, crypto |-> Never,
      findYahoo |-> FALSE, yahoo |-> Never]}

\* What the providers answer: every source up; the fallback FX provider with
\* one equity ticker timing out on every attempt; the crypto provider alone;
\* every source down
AllUp ==
    [fx |-> [primary |-> PrimaryOk(10), fallback |-> Down],
     cg |-> [ok |-> TRUE, data |-> ("bitcoin" :> 100)],
     yahoo |-> ("AAPL.BA" :> <<Ok(180), Ok(0), Ok(0)>>) @@ ("GGAL.BA" :> <<Ok(50), Ok(0), Ok(0)>>)]

Answers ==
    {AllUp,
     [fx |-> [primary |-> Down, fallback |-> FallbackOk(30)],
      cg |-> Down,
      yahoo |-> ("AAPL.BA" :> AllThrow) @@ ("GGAL.BA" :> <<Fail("throw"), Ok(60), Ok(0)>>)],
     [fx |-> [primary |-> Down, fallback |-> Down],
      cg |-> [ok |-> TRUE, data |-> ("bitcoin" :> 120)],
      yahoo |-> ("AAPL.BA" :> <<Fail("ratelimit"), Fail("ratelimit"), Fail("ratelimit")>>)
                @@ ("GGAL.BA" :> <<Fail("noprice"), Ok(60), Ok(60)>>)],
     [fx |-> [primary |-> Down, fallback |-> Down],
      cg |-> Down,
      yahoo |-> ("AAPL.BA" :> AllThrow) @@ ("GGAL.BA" :> <<Fail("http"), Fail("badjson"), Fail("nometa")>>)]}

\* Every answer with a store that works, every store fault with the providers up
FaultInputs ==
    {[fx |-> a.fx, cg |-> a.cg, yahoo |-> a.yahoo, db |-> NoFault] : a \in Answers}
    \cup {[fx |-> AllUp.fx, cg |-> AllUp.cg, yahoo |-> AllUp.yahoo, db |-> f] : f \in Faults}

SyncFaulty ==
    \E u \in {"u1", NoUser} : \E in \in FaultInputs : \E scan \in ScanOrders : Sync(u, in, scan)

NextFault == SyncFaulty

SpecFault == Init /\ [][NextFault]_vars

\* --------------------------------------------------- asset specification
\* Assets created and edited, a sync after any of it
AssetBodies ==
    {AssetBody("eth", "Ethereum", "crypto", "USD", NULL, NULL)}

AssetPatches ==
    {[yahooTicker |-> ""], [yahooTicker |-> "AAPL.BA"]}

\* What the providers answer in the asset specification: every source up, one
\* equity ticker without a price
AssetInput ==
    [fx |-> [primary |-> PrimaryOk(10), fallback |-> Down],
     cg |-> [ok |-> TRUE, data |-> ("bitcoin" :> 100)],
     yahoo |-> ("AAPL.BA" :> <<Ok(180), Ok(0), Ok(0)>>) @@ ("GGAL.BA" :> AllThrow),
     db |-> NoFault]

AddAsset == \E u \in {"u1", NoUser} : \E body \in AssetBodies : CreateAsset(u, body, AssetInput)

EditAsset ==
    \E u \in {"u1", NoUser} : \E id \in AssetIds \cup {"a6"} : \E patch \in AssetPatches :
        \E defaulted \in BOOLEAN : UpdateAsset(u, id, patch, defaulted)

SyncAssets == Sync("u1", AssetInput, ScanNow)

NextAssets == AddAsset \/ EditAsset \/ SyncAssets

SpecAssets == Init /\ [][NextAssets]_vars

\* ------------------------------------------------ ownership specification
\* Two users, each with at most one row, their edits and deletes in flight together
OwnerBodies == {Body("a1", 1, "buy", 10, 100), Body("a2", 1, "buy", 5, 200)}

EditBody == Body("a1", 1, "sell", 5, 150)

OwnerCreate ==
    \E u \in Users : \E body \in OwnerBodies :
        /\ \A t \in txs : t.userId # u
        /\ \E i \in TxIds : UnusedTxId(i)
        /\ CreateTransaction(u, body)

OwnerBeginUpdate ==
    \E slot \in Slots : \E u \in Users \cup {NoUser} : \E id \in TxIds :
        BeginUpdateTransaction(slot, u, id, EditBody)

OwnerBeginDelete ==
    \E slot \in Slots : \E u \in Users \cup {NoUser} : \E id \in TxIds :
        BeginDeleteTransaction(slot, u, id)

OwnerFinishUpdate == \E slot \in Slots : FinishUpdateTransaction(slot)

OwnerFinishDelete == \E slot \in Slots : FinishDeleteTransaction(slot)

NextOwner ==
    \/ OwnerCreate
    \/ OwnerBeginUpdate
    \/ OwnerBeginDelete
    \/ OwnerFinishUpdate
    \/ OwnerFinishDelete

SpecOwner == Init /\ [][NextOwner]_vars

\* -------------------------------------------------- privacy specification
\* A valuation in flight while the other users write their ledgers
PrivacyBodies(u) ==
    IF u = "u1"
    THEN {Body("a1", 1, "buy", 10, 100), Body("a2", 1, "buy", 5, 200)}
    ELSE {Body("a1", 1, "buy", 10, 200), Body("a1", 1, "sell", 4, 150)}

\* The user has no valuation in flight, some other user has
OthersTurn(u) == pending # {} /\ \A p \in pending : p.user # u

PrivacySetup ==
    /\ pending = {}
    /\ \E u \in Users : \E body \in PrivacyBodies(u) : CreateTransaction(u, body)

PrivacySync == pending = {} /\ Sync("u1", DayInput(today), ScanById)

PrivacyBegin ==
    \E slot \in Slots : \E u \in Users \cup {NoUser} : \E order \in GroupOrders(u) :
        \E sel \in RateSelections : BeginGetPortfolio(slot, u, order, sel)

PrivacyCreate ==
    \E u \in Users : \E body \in PrivacyBodies(u) : OthersTurn(u) /\ CreateTransaction(u, body)

PrivacyUpdate ==
    \E u \in Users : \E id \in TxIds : \E body \in PrivacyBodies(u) :
        OthersTurn(u) /\ UpdateTransaction(u, id, body)

PrivacyDelete == \E u \in Users : \E id \in TxIds : OthersTurn(u) /\ DeleteTransaction(u, id)

PrivacyFinish == \E slot \in Slots : FinishGetPortfolio(slot)

NextPrivacy ==
    \/ PrivacySetup
    \/ PrivacySync
    \/ PrivacyBegin
    \/ PrivacyCreate
    \/ PrivacyUpdate
    \/ PrivacyDelete
    \/ PrivacyFinish

SpecPrivacy == Init /\ [][NextPrivacy]_vars

\* ---------------------------------------------------- adapter specification
\* One batch of two tickers, every request answered in every way; no second
\* batch after the first has returned
BatchTickers == <<"AAPL.BA", "GGAL.BA">>

Outcomes ==
    {Ok(180), Fail("ratelimit"), Fail("http"), Fail("badjson"), Fail("throw"),
     Fail("nometa"), Fail("noprice")}

YahooBegin == resp = NoResponse /\ BeginFetchYahooQuotes("s1", BatchTickers)

YahooSend == SendYahooRequest("s1")

YahooReceive == \E o \in Outcomes : ReceiveYahooResponse("s1", o)

YahooFinish == FinishFetchYahooQuotes("s1")

NextYahoo == YahooBegin \/ YahooSend \/ YahooReceive \/ YahooFinish

SpecYahoo == Init /\ [][NextYahoo]_vars

\* Every await of the batch settles: the timeout aborts a request that hangs
SpecYahooFair == SpecYahoo /\ WF_vars(YahooSend) /\ WF_vars(YahooReceive) /\ WF_vars(YahooFinish)

\* ------------------------------------------------- deletion specification
\* Purchases and their removal, sync runs, and deletions of assets held, not
\* held, or not there
DeleteBodies == {Body("a1", 1, "buy", 10, 100), Body("a3", 1, "buy", 10, 100)}

DeletedIds == {"a1", "a3", "a4", NULL}

DeleteBuy == \E u \in Users : \E body \in DeleteBodies : CreateTransaction(u, body)

DeleteSell == \E u \in Users : \E id \in TxIds : DeleteTransaction(u, id)

DeleteSync == Sync("u1", DayInput(today), ScanNow)

DeleteOne == \E u \in Users \cup {NoUser} : \E id \in DeletedIds : DeleteAsset(u, id)

NextDelete == DeleteBuy \/ DeleteSell \/ DeleteSync \/ DeleteOne

SpecDelete == Init /\ [][NextDelete]_vars

\* ----------------------------------------------- uniqueness specification
\* Creations of a new pair and of a pair the table has, two at a time, edits
\* that move a row onto the pair of another, and deletions
UniqueBodies ==
    {AssetBody("MELI", "MercadoLibre", "cedear", NULL, NULL, NULL),
     AssetBody("AAPL", "Apple", "cedear", NULL, NULL, NULL)}

UniquePatches ==
    {("ticker" :> "AAPL") @@ ("type" :> "cedear"),
     ("ticker" :> "GGAL") @@ ("type" :> "arg_stock")}

UniqueBegin ==
    \E slot \in Slots : \E u \in Users : \E body \in UniqueBodies : BeginPostAsset(slot, u, body)

\* What the equity provider answers to the initial price sync
UniqueInput ==
    [cg |-> Down,
     yahoo |-> ("MELI.BA" :> <<Ok(75), Ok(0), Ok(0)>>) @@ ("AAPL.BA" :> AllThrow)]

UniqueFinish == \E slot \in Slots : FinishPostAsset(slot, UniqueInput)

UniqueEdit ==
    \E id \in {"a1", "a2", "a4"} : \E patch \in UniquePatches : UpdateAsset("u1", id, patch, FALSE)

UniqueDelete == \E id \in {"a2", "a4"} : DeleteAsset("u1", id)

NextUnique == UniqueBegin \/ UniqueFinish \/ UniqueEdit \/ UniqueDelete

SpecUnique == Init /\ [][NextUnique]_vars

\* ----------------------------------------------------- race specification
\* Two sync runs of one day in flight together; the providers answer the two
\* with different prices for the same rate, crypto asset and equity asset
RaceInput(rate, btc, aapl) ==
    [fx |-> [primary |-> Down, fallback |-> [ok |-> TRUE, data |-> ("oficial" :> Value(rate, rate + 1))]],
     cg |-> [ok |-> TRUE, data |-> ("bitcoin" :> btc)],
     yahoo |-> ("AAPL.BA" :> <<Ok(aapl), Ok(0), Ok(0)>>) @@ ("GGAL.BA" :> AllThrow),
     db |-> NoFault]

RaceInputs == {RaceInput(10, 100, 180), RaceInput(20, 110, 190)}

RaceStart == \E slot \in Slots : \E in \in RaceInputs : BeginSync(slot, in)

RaceWrite == \E slot \in Slots : WriteRow(slot)

RaceStage == \E slot \in Slots : NextStage(slot)

RaceReturn == \E slot \in Slots : Finish(slot)

NextRace == RaceStart \/ RaceWrite \/ RaceStage \/ RaceReturn

SpecRace == Init /\ [][NextRace]_vars

\* ---------------------------------------------------- frame specification
\* Purchases, valuations and sync runs over several days; the runs with every
\* source up, with the crypto provider down, and with the store failing in
\* the equity stage
FrameInputs ==
    {[fx |-> AllUp.fx, cg |-> AllUp.cg, yahoo |-> AllUp.yahoo, db |-> NoFault],
     [fx |-> [primary |-> Down, fallback |-> FallbackOk(30)], cg |-> Down,
      yahoo |-> ("AAPL.BA" :> AllThrow) @@ ("GGAL.BA" :> <<Fail("throw"), Ok(60), Ok(0)>>),
      db |-> NoFault],
     [fx |-> AllUp.fx, cg |-> AllUp.cg, yahoo |-> AllUp.yahoo,
      db |-> [NoFault EXCEPT !.yahoo = FailAfter(1)]]}

FrameBuy == CreateTransaction("u1", Body("a1", 1, "buy", 10, 100))

FrameSync == \E u \in {"u1", NoUser} : \E in \in FrameInputs : Sync(u, in, ScanById)

FramePortfolio ==
    \E order \in GroupOrders("u1") : \E sel \in RateSelections : GetPortfolio("u1", order, sel)

FrameMidnight == Tick(MaxDay)

NextFrame == FrameBuy \/ FrameSync \/ FramePortfolio \/ FrameMidnight

SpecFrame == Init /\ [][NextFrame]_vars

\* ----------------------------------------------------- chat specification
\* Purchases and sales, whole and in part, and the two views of the ledger
ChatBodies ==
    {Body("a1", 1, "buy", 10, 100), Body("a1", 1, "sell", 5, 150),
     Body("a1", 1, "sell", 10, 150), Body("a3", 1, "buy", 10, 100)}

ChatRecord == \E body \in ChatBodies : CreateTransaction("u1", body)

ChatRemove == \E id \in TxIds : DeleteTransaction("u1", id)

ChatContext ==
    \E u \in {"u1", NoUser} : \E messages \in BOOLEAN : \E sel \in ContextSelections :
        GetPortfolioContext(u, messages, sel)

ChatValuation ==
    \E order \in GroupOrders("u1") : \E sel \in RateSelections : GetPortfolio("u1", order, sel)

NextChat == ChatRecord \/ ChatRemove \/ ChatContext \/ ChatValuation

SpecChat == Init /\ [][NextChat]_vars

Spec == Init /\ [][Next]_vars

\* =================================================================== claims
\* The claims speak of a user's buys and sells; these are stated on the ledger
\* itself, apart from the handler's own aggregates.
Buys(u, a) == {t \in txs : t.userId = u /\ t.assetId = a /\ t.type = "buy"}

Sells(u, a) == {t \in txs : t.userId = u /\ t.assetId = a /\ t.type = "sell"}

BoughtQuantity(u, a) == SumOver([t \in Buys(u, a) |-> t.quantity], Buys(u, a))

SoldQuantity(u, a) == SumOver([t \in Sells(u, a) |-> t.quantity], Sells(u, a))

CostOfBuys(u, a) == SumOver([t \in Buys(u, a) |-> t.quantity * t.unitPrice], Buys(u, a))

NetOf(u, a) == BoughtQuantity(u, a) - SoldQuantity(u, a)

\* The last handler was the portfolio valuation and it returned a summary
IsSummary == req.op = "portfolio" /\ resp.kind = "portfolio"

Entries == 1..Len(resp.holdings)

IsEntryOf(i, a) ==
    resp.holdings[i].ticker = assets[a].ticker /\ resp.holdings[i].type = assets[a].type

Listed(a) == \E i \in Entries : IsEntryOf(i, a)

Entry(a) == resp.holdings[CHOOSE i \in Entries : IsEntryOf(i, a)]

\* C1: the valuation lists an asset only if the user's net quantity for it (buys
\* minus sells) is strictly positive; net 0 or negative is never listed.
C1_ListedOnlyIfNetPositive ==
    IsSummary => \A a \in AssetIds : Listed(a) => NetOf(req.user, a) > 0

C1_Witness ==
    /\ IsSummary
    /\ Len(resp.holdings) > 0
    /\ \E a \in AssetIds :
          Buys(req.user, a) # {} /\ NetOf(req.user, a) <= 0 /\ ~Listed(a)

\* C2: for every holding avgPrice x total bought = total cost of buys, avgPrice
\* is finite (no division by zero) and it is 0 exactly when nothing was bought.
C2_AvgPriceTimesBoughtIsCost ==
    IsSummary =>
        \A a \in AssetIds : Listed(a) =>
            /\ Finite(Entry(a).avgPrice)
            /\ NumMul(Entry(a).avgPrice, Num(BoughtQuantity(req.user, a)))
                   = Num(CostOfBuys(req.user, a))
            /\ (Entry(a).avgPrice = Num(0)) <=> (BoughtQuantity(req.user, a) = 0)

C2_Witness ==
    /\ IsSummary
    /\ \E a \in AssetIds :
          /\ Listed(a)
          /\ Sells(req.user, a) # {}
          /\ Cardinality({t.unitPrice : t \in Buys(req.user, a)}) > 1

QuotesOf(a) == {q \in BagToSet(quotes) : q.assetId = a}

\* C3: currentPrice is the price of the asset's quote of greatest date; with no
\* quote it is avgPrice and both returns are 0; with a quote returnPct =
\* (currentPrice - avgPrice) / avgPrice x 100 and returnAbs = (currentPrice -
\* avgPrice) x net quantity.  Buys 10@100 and 10@200 with latest quote 180 give
\* avgPrice 150, quantity 20, returnPct 20, returnAbs 600.
C3_CurrentPriceAndReturns ==
    IsSummary =>
        \A a \in AssetIds : Listed(a) =>
            LET h == Entry(a)
                net == Num(NetOf(req.user, a))
            IN  /\ QuotesOf(a) = {} =>
                      h.currentPrice = h.avgPrice /\ h.returnPct = Num(0) /\ h.returnAbs = Num(0)
                /\ QuotesOf(a) # {} =>
                      /\ \E q \in QuotesOf(a) :
                            /\ \A o \in QuotesOf(a) : o.date <= q.date
                            /\ h.currentPrice = Num(q.price)
                      /\ h.returnPct =
                            NumMul(NumDiv(NumSub(h.currentPrice, h.avgPrice), h.avgPrice), Num(100))
                      /\ h.returnAbs = NumMul(NumSub(h.currentPrice, h.avgPrice), net)
                /\ ( /\ Sells(req.user, a) = {}
                     /\ Cardinality(Buys(req.user, a)) = 2
                     /\ {<<t.quantity, t.unitPrice>> : t \in Buys(req.user, a)}
                            = {<<10, 100>>, <<10, 200>>}
                     /\ h.currentPrice = Num(180) )
                   => ( /\ h.avgPrice = Num(150) /\ h.quantity = Num(20)
                        /\ h.returnPct = Num(20) /\ h.returnAbs = Num(600) )

C3_Witness ==
    /\ IsSummary
    /\ \E a \in AssetIds :
          /\ Listed(a)
          /\ Entry(a).avgPrice = Num(150)
          /\ Entry(a).quantity = Num(20)
          /\ Entry(a).currentPrice = Num(180)
          /\ Entry(a).returnPct = Num(20)
          /\ Entry(a).returnAbs = Num(600)

\* The multiset of (quantity, unit price) of a user's buys of an asset
BuyBag(u, a) ==
    LET key(t) == <<t.quantity, t.unitPrice>>
    IN  [k \in {key(t) : t \in Buys(u, a)} |-> Cardinality({t \in Buys(u, a) : key(t) = k})]

\* The avgPrice the valuation gives for asset a of user u in the current state
ValuedAvgPrice(u, a) == AvgPrice(HoldingRow(u, a).totalBought, HoldingRow(u, a).totalCost)

\* A step of the ledger that leaves the multiset of u's buys of a as it was, a
\* held before and after it
SameBuysStillHeld(u, a) ==
    /\ txs' # txs
    /\ NetOf(u, a) > 0
    /\ NetOf(u, a)' > 0
    /\ BuyBag(u, a)' = BuyBag(u, a)

\* C4: avgPrice depends only on the multiset of the user's buys of the asset: a
\* step that adds, removes, re-dates or renumbers transactions but leaves that
\* multiset as it was (the asset held before and after) leaves avgPrice as it was.
C4_AvgPriceOnlyFromBuys ==
    [][\A a \in AssetIds :
          SameBuysStillHeld("u1", a) => ValuedAvgPrice("u1", a)' = ValuedAvgPrice("u1", a)]_vars

\* A valuation after a sell was recorded against two buys at different prices
C4_Witness ==
    /\ IsSummary
    /\ \E a \in AssetIds :
          /\ Listed(a)
          /\ Sells(req.user, a) # {}
          /\ Cardinality({t.unitPrice : t \in Buys(req.user, a)}) = 2
          /\ Entry(a).avgPrice = Num(150)

\* C5: an ARS holding has valueUsd = currentValue / oficial (so valueUsd x oficial
\* gives currentValue back) and USD cost = costBasis / oficial; a USD holding has
\* valueUsd = currentValue and USD cost = costBasis.
CostUsdOf(h) ==
    IF h.currency = "ARS" THEN NumDiv(h.costBasis, resp.dollarRates.oficial) ELSE h.costBasis

C5_UsdConversion ==
    IsSummary =>
        /\ \A i \in Entries :
              LET h == resp.holdings[i]
              IN  /\ h.currency = "ARS" =>
                        /\ h.valueUsd = NumDiv(h.currentValue, resp.dollarRates.oficial)
                        /\ NumMul(h.valueUsd, resp.dollarRates.oficial) = h.currentValue
                  /\ h.currency = "USD" => h.valueUsd = h.currentValue
        /\ Len(resp.holdings) = 1 => resp.totalCostUsd = CostUsdOf(resp.holdings[1])

C5_Witness ==
    /\ IsSummary
    /\ resp.dollarRates.oficial = Num(4)
    /\ \E i \in Entries :
          resp.holdings[i].currency = "ARS" /\ resp.holdings[i].valueUsd # resp.holdings[i].currentValue
    /\ \E i \in Entries : resp.holdings[i].currency = "USD"

\* C6: totalValueUsd and totalCostUsd are the sums of the USD value and USD cost
\* of exactly the listed holdings, totalReturnAbs is their difference and
\* totalReturnPct = totalReturnAbs / totalCostUsd x 100, 0 when totalCostUsd is 0.
C6_Totals ==
    IsSummary =>
        /\ resp.totalValueUsd = NumSum([i \in Entries |-> resp.holdings[i].valueUsd])
        /\ resp.totalCostUsd = NumSum([i \in Entries |-> CostUsdOf(resp.holdings[i])])
        /\ resp.totalReturnAbs = NumSub(resp.totalValueUsd, resp.totalCostUsd)
        /\ resp.totalReturnPct =
              IF resp.totalCostUsd = Num(0) THEN Num(0)
              ELSE NumMul(NumDiv(resp.totalReturnAbs, resp.totalCostUsd), Num(100))

C6_Witness ==
    /\ IsSummary
    /\ Len(resp.holdings) >= 2
    /\ resp.totalReturnAbs # Num(0)
    /\ resp.totalValueUsd # resp.totalCostUsd
    /\ \E i, j \in Entries : resp.holdings[i].currency # resp.holdings[j].currency

\* C7: an authenticated user with no asset of positive net quantity gets the zero
\* summary (every total 0, no holdings, the three rates 1) whatever is stored.
C7_ZeroSummary ==
    (req.op = "portfolio" /\ req.user \in Users
        /\ \A a \in AssetIds : NetOf(req.user, a) <= 0)
    => resp = [kind |-> "portfolio", status |-> 200,
               totalValueUsd |-> Num(0), totalCostUsd |-> Num(0), totalReturnAbs |-> Num(0),
               totalReturnPct |-> Num(0), totalValueArs |-> Num(0), totalCostArs |-> Num(0),
               totalReturnAbsArs |-> Num(0),
               dollarRates |-> [oficial |-> Num(1), mep |-> Num(1), blue |-> Num(1)],
               holdings |-> <<>>]

C7_Witness ==
    /\ req.op = "portfolio"
    /\ req.user \in Users
    /\ \E a \in AssetIds : Buys(req.user, a) # {} /\ Sells(req.user, a) # {}
    /\ \A a \in AssetIds : NetOf(req.user, a) <= 0
    /\ dollarRates # EmptyBag
    /\ quotes # EmptyBag
    /\ resp.kind = "portfolio"
    /\ resp.holdings = <<>>

\* C8: the holdings are in non-increasing order of valueUsd.
C8_SortedByValueUsd ==
    IsSummary =>
        \A i \in Entries : i < Len(resp.holdings) =>
            NumGe(resp.holdings[i].valueUsd, resp.holdings[i + 1].valueUsd)

C8_Witness ==
    /\ IsSummary
    /\ Len(resp.holdings) = 3
    /\ NumGt(resp.holdings[1].valueUsd, resp.holdings[2].valueUsd)
    /\ NumGt(resp.holdings[2].valueUsd, resp.holdings[3].valueUsd)

\* The stored rows of a rate type, and the sell price of the one of greatest date
StoredRates(type) == {r \in BagToSet(dollarRates) : r.type = type}

LatestStored(type) ==
    (CHOOSE r \in StoredRates(type) : \A o \in StoredRates(type) : o.date <= r.date).sellPrice

\* C9: for every content of the FX-rate store, a valuation with at least one
\* holding reports as oficial the sell price of the stored oficial row of greatest
\* date, else that of the latest mep row, else 1; and as mep and blue the latest
\* stored row of their own type, else 1.
C9_RatesAreLatestStored ==
    (IsSummary /\ Len(resp.holdings) > 0) =>
        /\ resp.dollarRates.oficial =
              IF StoredRates("oficial") # {} THEN Num(LatestStored("oficial"))
              ELSE IF StoredRates("mep") # {} THEN Num(LatestStored("mep"))
              ELSE Num(1)
        /\ resp.dollarRates.mep =
              IF StoredRates("mep") # {} THEN Num(LatestStored("mep")) ELSE Num(1)
        /\ resp.dollarRates.blue =
              IF StoredRates("blue") # {} THEN Num(LatestStored("blue")) ELSE Num(1)

\* Two runs of the sync in a row, on the same calendar day, the providers
\* answering the second as they answered the first
SecondRun ==
    /\ req.op = "sync" /\ resp.kind = "sync"
    /\ req'.op = "sync" /\ resp'.kind = "sync"
    /\ req'.day = req.day
    /\ req'.input = req.input

\* C10: a second sync run on the same calendar day with the same provider
\* responses and the same assets leaves the quote table and the FX-rate table
\* exactly as the first run left them: the same rows, none added.
C10_SecondRunChangesNothing ==
    [][SecondRun => (quotes' = quotes /\ dollarRates' = dollarRates)]_vars

C10_Witness ==
    /\ req.op = "sync" /\ resp.kind = "sync"
    /\ req.rerun
    /\ resp.updated = 7
    /\ \A a \in AssetIds : \E q \in BagToSet(quotes) : q.assetId = a /\ q.date = today
    /\ \E r \in BagToSet(dollarRates) : r.date = today

\* The rows of each table that share the key of `row`
SameKey(row) ==
    IF "assetId" \in DOMAIN row
    THEN {q \in BagToSet(quotes) : q.assetId = row.assetId /\ q.date = row.date}
    ELSE {r \in BagToSet(dollarRates) : r.type = row.type /\ r.date = row.date}

Copies(row) ==
    IF "assetId" \in DOMAIN row THEN CopiesIn(row, quotes) ELSE CopiesIn(row, dollarRates)

\* One row per (asset, day) and one per (rate type, day)
UniqueKeys ==
    \A row \in BagToSet(quotes) \cup BagToSet(dollarRates) :
        SameKey(row) = {row} /\ Copies(row) = 1

\* The rows a handler in flight wrote in this step
Written(p) ==
    IF p.todo # <<>> /\ \E n \in pending' : n.slot = p.slot /\ n.op = p.op /\ n.todo = Tail(p.todo)
    THEN {Head(p.todo)}
    ELSE {}

\* C11: under every interleaving of the statements of quote syncs and of asset
\* creations with their initial price sync, the quote table holds at most one row
\* per (asset, day) and the FX-rate table at most one per (type, day); a write
\* for a key that is stored replaces the stored row, it adds none.
C11_OneRowPerKey ==
    [][/\ UniqueKeys'
       /\ \A p \in pending : \A row \in Written(p) :
             /\ SameKey(row)' = {row}
             /\ Copies(row)' = 1]_vars

\* A sync in flight is about to write the key of a created asset's initial quote,
\* stored by the creation with another price
C11_Witness ==
    \E p \in pending : \E i \in DOMAIN p.todo : LET row == p.todo[i] IN
        /\ p.op = "sync"
        /\ "assetId" \in DOMAIN row
        /\ row.assetId \notin DOMAIN SeedAssets
        /\ \E q \in BagToSet(quotes) :
              q.assetId = row.assetId /\ q.date = row.date /\ q.price # row.price

\* --------------------------------------------------------------------- C12
\* The rows a stage of the run would write if the store took every write
RateWrites(in) == Len(FetchDollarRates(in.fx).rates)

CryptoWrites(in) ==
    Cardinality({id \in AssetIds :
        /\ assets[id].type \in CryptoTypes
        /\ Truthy(assets[id].coingeckoId)
        /\ in.cg.ok
        /\ assets[id].coingeckoId \in DOMAIN in.cg.data
        /\ in.cg.data[assets[id].coingeckoId] # 0})

YahooWrites(in) ==
    Cardinality({id \in AssetIds :
        /\ assets[id].type \in EquityTypes
        /\ Truthy(assets[id].yahooTicker)
        /\ FetchYahooQuote(assets[id].yahooTicker, in.yahoo).ok
        /\ FetchYahooQuote(assets[id].yahooTicker, in.yahoo).price # 0})

Throws(fault, n) == fault.fails /\ fault.after < n

\* The failures that reach the three catch blocks of a run, from its answers
StagesOf(in) ==
    {[source |-> "dolarapi", label |-> "Dollar rates",
      failed |-> ~FetchDollarRates(in.fx).ok \/ Throws(in.db.rates, RateWrites(in))],
     [source |-> "coingecko", label |-> "CoinGecko",
      failed |-> \/ ~in.db.findCrypto
                 \/ /\ \E id \in AssetIds : /\ assets[id].type \in CryptoTypes
                                            /\ Truthy(assets[id].coingeckoId)
                    /\ ~in.cg.ok \/ Throws(in.db.crypto, CryptoWrites(in))],
     [source |-> "yahoo", label |-> "Yahoo Finance",
      failed |-> ~in.db.findYahoo \/ Throws(in.db.yahoo, YahooWrites(in))]}

EntriesOf(label) == {i \in DOMAIN resp.errors : resp.errors[i].source = label}

AuthenticatedSync == req.op = "sync" /\ req.user # NoUser

\* C12: for an authenticated caller a sync always answers 200 with the summary
\* (updated, errors, sources), whatever the providers and the store reads and
\* writes do; a stage that failed is marked error and its failure, caught by the
\* stage's catch block, is one entry of the error list
C12_SyncAlwaysAnswers ==
    AuthenticatedSync =>
        /\ resp.kind = "sync"
        /\ resp.status = 200
        /\ resp.updated \in Nat
        /\ \A stage \in StagesOf(req.input) :
              /\ stage.failed <=> resp.sources[stage.source] = "error"
              /\ stage.failed => Cardinality(EntriesOf(stage.label)) = 1
              /\ ~stage.failed => EntriesOf(stage.label) = {}

\* A run in which the providers answered and the store failed in all three stages
C12_Witness ==
    /\ AuthenticatedSync
    /\ req.input.fx.primary.ok /\ req.input.cg.ok
    /\ req.input.db.rates.fails /\ ~req.input.db.findCrypto /\ ~req.input.db.findYahoo
    /\ \A stage \in StagesOf(req.input) : resp.sources[stage.source] = "error"
    /\ Len(resp.errors) = 3

\* --------------------------------------------------------------------- C13
\* The places of a call in the run's trace
Places(call) == {i \in DOMAIN req.calls : req.calls[i] = call}

\* Today's row of every rate the FX adapter returned is stored
RatesPersisted(in, day) ==
    LET rates == FetchDollarRates(in.fx).rates
    IN  \A i \in DOMAIN rates :
            CopiesIn([date |-> day, type |-> rates[i].type, buyPrice |-> rates[i].buyPrice,
                      sellPrice |-> rates[i].sellPrice], dollarRates) = 1

\* Today's row of every crypto asset the crypto adapter priced is stored
CryptoPersisted(in, day) ==
    \A id \in AssetIds :
        (/\ assets[id].type \in CryptoTypes
         /\ Truthy(assets[id].coingeckoId)
         /\ assets[id].coingeckoId \in DOMAIN in.cg.data
         /\ in.cg.data[assets[id].coingeckoId] # 0)
        => CopiesIn([assetId |-> id, date |-> day,
                     price |-> in.cg.data[assets[id].coingeckoId]], quotes) = 1

\* Today's row of every equity asset the equity adapter priced is stored
YahooPersisted(in, day) ==
    \A id \in AssetIds :
        (/\ assets[id].type \in EquityTypes
         /\ Truthy(assets[id].yahooTicker)
         /\ FetchYahooQuote(assets[id].yahooTicker, in.yahoo).ok
         /\ FetchYahooQuote(assets[id].yahooTicker, in.yahoo).price # 0)
        => CopiesIn([assetId |-> id, date |-> day,
                     price |-> FetchYahooQuote(assets[id].yahooTicker, in.yahoo).price],
                    quotes) = 1

\* C13: every run attempts the FX stage, then the crypto stage, then the equity
\* stage, whatever failed before; the summary marks each source ok or error,
\* none pending; the rows of a stage that succeeded are stored even when
\* another stage failed
C13_AllStagesInOrder ==
    AuthenticatedSync =>
        /\ \E i \in Places("dolarapi") : \E j \in Places("findCrypto") :
              \E k \in Places("findYahoo") : i < j /\ j < k
        /\ \A call \in {"dolarapi", "findCrypto", "findYahoo"} : Cardinality(Places(call)) = 1
        /\ \A source \in {"dolarapi", "coingecko", "yahoo"} :
              resp.sources[source] \in {"ok", "error"}
        /\ resp.sources.dolarapi = "ok" => RatesPersisted(req.input, req.day)
        /\ resp.sources.coingecko = "ok" => CryptoPersisted(req.input, req.day)
        /\ resp.sources.yahoo = "ok" => YahooPersisted(req.input, req.day)

\* A run whose FX stage failed and whose later stages stored their rows
C13_Witness ==
    /\ AuthenticatedSync
    /\ resp.sources.dolarapi = "error"
    /\ resp.sources.coingecko = "ok"
    /\ resp.sources.yahoo = "ok"
    /\ \E q \in BagToSet(quotes) : q.assetId = "a3" /\ q.date = req.day
    /\ \E q \in BagToSet(quotes) : q.assetId = "a1" /\ q.date = req.day
    /\ CryptoPersisted(req.input, req.day)
    /\ YahooPersisted(req.input, req.day)

\* --------------------------------------------------------------------- C14
\* The equity asset's request throws (times out) on every attempt
TimesOut(id, in) ==
    /\ assets[id].type \in EquityTypes
    /\ Truthy(assets[id].yahooTicker)
    /\ \A n \in DOMAIN in.yahoo[assets[id].yahooTicker] :
          in.yahoo[assets[id].yahooTicker][n].kind = "throw"

\* The equity asset's request ends with a price
Succeeds(id, in) ==
    /\ assets[id].type \in EquityTypes
    /\ Truthy(assets[id].yahooTicker)
    /\ FetchYahooQuote(assets[id].yahooTicker, in.yahoo).ok
    /\ FetchYahooQuote(assets[id].yahooTicker, in.yahoo).price # 0

\* The run's equity assets are one that times out and one that succeeds, and
\* the store takes every read and write
PartialFailure(in) ==
    /\ in.db = NoFault
    /\ \E f \in AssetIds : \E g \in AssetIds \ {f} :
          /\ TimesOut(f, in)
          /\ Succeeds(g, in)
          /\ \A id \in AssetIds \ {f, g} : assets[id].type \notin EquityTypes

\* C14: when one equity asset times out on every attempt and the other
\* succeeds, the summary has updated >= 1, an error entry names the failed
\* asset's ticker, the equity source is ok, today's quote of the succeeding
\* asset is stored and the run writes no quote of the failing one
C14_PartialFailure ==
    [][(AuthenticatedSync' /\ PartialFailure(req'.input)) =>
          \A f \in {id \in AssetIds : TimesOut(id, req'.input)} :
          \A g \in {id \in AssetIds : Succeeds(id, req'.input)} :
              /\ resp'.updated >= 1
              /\ \E i \in DOMAIN resp'.errors : resp'.errors[i].ticker = assets[f].ticker
              /\ resp'.sources.yahoo = "ok"
              /\ \E q \in BagToSet(quotes') :
                    /\ q.assetId = g /\ q.date = req'.day
                    /\ q.price = FetchYahooQuote(assets[g].yahooTicker, req'.input.yahoo).price
              /\ QuoteRows(f)' = QuoteRows(f)
              /\ \A q \in QuoteRows(f) : CopiesIn(q, quotes') = CopiesIn(q, quotes)]_vars

\* After such a run: the failing asset keeps the quote an earlier run stored,
\* the succeeding one has the new price
C14_Witness ==
    /\ AuthenticatedSync
    /\ PartialFailure(req.input)
    /\ TimesOut("a1", req.input)
    /\ resp.updated >= 1
    /\ \E q \in BagToSet(quotes) : q.assetId = "a1" /\ q.date = req.day /\ q.price = 180
    /\ \E q \in BagToSet(quotes) : q.assetId = "a2" /\ q.date = req.day /\ q.price = 60

\* --------------------------------------------------------------------- C15
\* The crypto adapter returned no price for the asset's id
Unpriced(id, in) ==
    \/ assets[id].coingeckoId \notin DOMAIN in.cg.data
    \/ in.cg.data[assets[id].coingeckoId] = 0

\* C15: in a run whose crypto stage did not fail, every crypto or stablecoin
\* asset with no provider id, and every one whose id got no price, has its own
\* entry in the error list
C15_CryptoAssetErrors ==
    (AuthenticatedSync /\ resp.sources.coingecko = "ok") =>
        \A id \in AssetIds :
            (/\ assets[id].type \in CryptoTypes
             /\ ~Truthy(assets[id].coingeckoId) \/ Unpriced(id, req.input))
            => \E i \in DOMAIN resp.errors : resp.errors[i].ticker = assets[id].ticker

\* --------------------------------------------------------------------- C16
\* The equity adapter returned no price for the asset's symbol
NoEquityPrice(id, in) ==
    \/ ~FetchYahooQuote(assets[id].yahooTicker, in.yahoo).ok
    \/ FetchYahooQuote(assets[id].yahooTicker, in.yahoo).price = 0

\* C16: in a run whose equity stage did not fail, every cedear, arg_stock or
\* stock asset with no symbol, and every one the equity adapter returned no
\* price for, has its own entry in the error list, also when no equity asset
\* has a symbol
C16_EquityAssetErrors ==
    (AuthenticatedSync /\ resp.sources.yahoo = "ok") =>
        \A id \in AssetIds :
            (/\ assets[id].type \in EquityTypes
             /\ ~Truthy(assets[id].yahooTicker) \/ NoEquityPrice(id, req.input))
            => \E i \in DOMAIN resp.errors : resp.errors[i].ticker = assets[id].ticker

\* --------------------------------------------------------------------- C17
\* The answers after which fetchYahooQuote asks again, while attempts are left
Retryable == {"ratelimit", "http", "badjson", "throw"}

\* The last request fetchYahooQuote makes for a ticker
LastAttempt(outcomes) ==
    CHOOSE n \in 1..(Retries + 1) :
        /\ n = Retries + 1 \/ outcomes[n].kind \notin Retryable
        /\ \A m \in 1..(n - 1) : outcomes[m].kind \in Retryable

\* The fetch of the ticker did not end with a numeric price
UltimatelyFails(outcomes) == outcomes[LastAttempt(outcomes)].kind # "ok"

\* The symbols a run asks the equity adapter for
AskedTickers ==
    {assets[id].yahooTicker : id \in {a \in AssetIds : /\ assets[a].type \in EquityTypes
                                                       /\ Truthy(assets[a].yahooTicker)}}

\* C17: the equity adapter's mapping has a key exactly for the requested
\* tickers whose fetch ended with a numeric price, with that price; a ticker
\* whose fetch ultimately failed has no key, the summary shows no price for it,
\* and the run leaves the quotes of its asset as they were
C17_FailedTickerAbsent ==
    [][AuthenticatedSync' =>
          LET yahoo == req'.input.yahoo
              prices == FetchYahooQuotes(AskedTickers, yahoo)
          IN  /\ DOMAIN prices = {t \in AskedTickers : ~UltimatelyFails(yahoo[t])}
              /\ \A t \in DOMAIN prices : prices[t] = yahoo[t][LastAttempt(yahoo[t])].price
              /\ \A id \in AssetIds :
                    (/\ assets[id].type \in EquityTypes
                     /\ Truthy(assets[id].yahooTicker)
                     /\ UltimatelyFails(yahoo[assets[id].yahooTicker]))
                    => /\ QuoteRows(id)' = QuoteRows(id)
                       /\ \A q \in QuoteRows(id) : CopiesIn(q, quotes') = CopiesIn(q, quotes)
                       /\ \A i \in DOMAIN resp'.yahoo :
                             resp'.yahoo[i].ticker = assets[id].ticker
                             => ~resp'.yahoo[i].priced]_vars

\* After a run of day 2 in which AAPL.BA failed on every attempt: the asset
\* keeps its quote of day 1 and has none of day 2
C17_Witness ==
    /\ AuthenticatedSync
    /\ req.day = 2
    /\ UltimatelyFails(req.input.yahoo["AAPL.BA"])
    /\ \E q \in QuoteRows("a1") : q.date = 1
    /\ \A q \in QuoteRows("a1") : q.date # 2

\* --------------------------------------------------------------------- C18
\* C18: a run calls the primary FX provider once, the fallback once when the
\* primary failed and not at all otherwise; when both fail the adapter fails,
\* the FX source is marked error with one error entry and the rates table is
\* left as it was
C18_FallbackOnlyOnFailure ==
    [][AuthenticatedSync' =>
          LET fx == req'.input.fx
          IN  /\ Cardinality(Places("dolarapi"))' = 1
              /\ Cardinality(Places("bluelytics"))' = (IF fx.primary.ok THEN 0 ELSE 1)
              /\ FetchDollarRates(fx).ok <=> (fx.primary.ok \/ fx.fallback.ok)
              /\ (~fx.primary.ok /\ ~fx.fallback.ok) =>
                    /\ resp'.sources.dolarapi = "error"
                    /\ Cardinality(EntriesOf("Dollar rates"))' = 1
                    /\ dollarRates' = dollarRates]_vars

\* After a run in which both FX providers failed: both were called, the rows of
\* an earlier run are still there
C18_Witness ==
    /\ AuthenticatedSync
    /\ ~req.input.fx.primary.ok /\ ~req.input.fx.fallback.ok
    /\ req.calls[1] = "dolarapi" /\ req.calls[2] = "bluelytics"
    /\ resp.sources.dolarapi = "error"
    /\ dollarRates # EmptyBag

\* --------------------------------------------------------------------- C19
\* The rate types GET /api/portfolio reads
ValuationTypes == {"oficial", "mep", "blue"}

\* C19: after a run served by the fallback FX provider (the primary failed, the
\* fallback answered) the rates table holds a row of the run's day for every
\* rate type the valuation reads
C19_FallbackSameKeys ==
    (/\ AuthenticatedSync
     /\ ~req.input.fx.primary.ok
     /\ req.input.fx.fallback.ok
     /\ resp.sources.dolarapi = "ok")
    => \A type \in ValuationTypes :
          \E r \in BagToSet(dollarRates) : r.type = type /\ r.date = req.day

\* --------------------------------------------------------------------- C20
\* The step writes or removes the row
Touched(t) == t \notin txs'

\* The step answers an edit or delete request of user u for row id
Asked(u, id) ==
    /\ <<req, resp>>' # <<req, resp>>
    /\ req'.op \in {"updateTransaction", "deleteTransaction"}
    /\ req'.user = u
    /\ req'.txId = id

\* C20: a transaction is written or removed only by an edit or delete request
\* of its owner; the request of any other authenticated user for it is answered
\* 404 and leaves the table as it was; no step changes the owner of a
\* transaction, whatever requests are in flight together
C20_OwnerOnly ==
    [][\A t \in txs :
          /\ Touched(t) => Asked(t.userId, t.id)
          /\ \A n \in txs' : n.id = t.id => n.userId = t.userId
          /\ \A u \in Users \ {t.userId} :
                Asked(u, t.id) => resp'.status = 404 /\ txs' = txs]_vars

\* The other user's request for a row was refused while its owner's edit of
\* the same row is in flight
C20_Witness ==
    /\ req.op \in {"updateTransaction", "deleteTransaction"}
    /\ resp.status = 404
    /\ \E t \in txs :
          /\ t.id = req.txId
          /\ req.user \in Users \ {t.userId}
          /\ \E p \in pending : p.op = "updateTransaction" /\ p.txId = t.id /\ p.user = t.userId

\* --------------------------------------------------------------------- C21
\* The valuations in flight: each was computed before the other users' writes
\* that followed it
Valuations == {p \in pending : p.op = "portfolio"}

\* C21: the valuation of a user is computed from that user's transactions
\* only: with assets, quotes and rates fixed, whatever transactions the other
\* users have created, edited or deleted since a valuation was computed, the
\* valuation of the state they left is the same holdings and totals
C21_OthersLedgerInvisible ==
    \A p \in Valuations :
        /\ p.order \in GroupOrders(p.user)
        /\ p.sel \in RateSelections
        /\ Summary(p.user, p.order, p.sel) = p.answer

\* u2 has edited a transaction of an asset that the valuation in flight lists for u1
C21_Witness ==
    /\ req.op = "updateTransaction" /\ req.user = "u2" /\ resp.status = 200
    /\ \E p \in Valuations :
          /\ p.user = "u1"
          /\ \E i \in DOMAIN p.answer.holdings : p.answer.holdings[i].ticker = "AAPL"
    /\ \E t \in txs : t.userId = "u2" /\ t.assetId = "a1" /\ t.id = resp.id

\* --------------------------------------------------------------------- C22
\* The batches in flight
Batches == {p \in pending : p.op = "fetchYahooQuotes"}

\* The batch has returned
BatchDone == resp.kind = "quotes"

\* The event logs of the batches in flight and of the batch that returned last
Logs == {p.log : p \in Batches} \cup (IF BatchDone THEN {resp.log} ELSE {})

\* The places of the requests for a ticker in a log
RequestsFor(log, ticker) ==
    {k \in DOMAIN log : log[k].kind = "request" /\ log[k].ticker = ticker}

\* The tickers in the order of their first requests
FirstRequests(log) ==
    LET first == SelectSeq(log, LAMBDA e : e.kind = "request" /\ e.attempt = 1)
    IN  [k \in DOMAIN first |-> first[k].ticker]

\* At most Retries + 1 requests per ticker, numbered from 1 with no other
\* ticker's request in between; a batch that returned made a first request for
\* every ticker of its list, once and in the order of the list
RequestsCapped ==
    /\ \A log \in Logs : \A k \in DOMAIN log :
          log[k].kind = "request" =>
              /\ log[k].attempt \in 1..(Retries + 1)
              /\ Cardinality(RequestsFor(log, log[k].ticker)) <= Retries + 1
              /\ Cardinality({j \in RequestsFor(log, log[k].ticker) : j <= k}) = log[k].attempt
    /\ BatchDone => FirstRequests(resp.log) = req.tickers

\* C22: the equity adapter sends at most 3 requests per ticker (the first
\* attempt and at most 2 retries) whatever the answers are; it then gives up on
\* that ticker only; every batch returns, having attempted every ticker of its
\* list once, in the order of the list
C22_RetriesCapped == []RequestsCapped /\ ((Batches # {}) ~> (Batches = {} /\ BatchDone))

\* A batch returned after three failed requests for the first ticker and a
\* price for the second
C22_Witness ==
    /\ BatchDone
    /\ Cardinality(RequestsFor(resp.log, "AAPL.BA")) = Retries + 1
    /\ "AAPL.BA" \notin DOMAIN resp.prices
    /\ "GGAL.BA" \in DOMAIN resp.prices

\* --------------------------------------------------------------------- C23
\* The places of the responses of a log that carried a rate-limit signal
RateLimited(log) ==
    {k \in DOMAIN log : log[k].kind = "response" /\ log[k].outcome = "ratelimit"}

\* C23: after a rate-limited attempt n the adapter waits n times the base delay
\* and, attempts left, sends the next request for the same ticker; the waits
\* after the rate-limited attempts of one ticker are strictly increasing
C23_EscalatingBackoff ==
    \A log \in Logs : \A k \in RateLimited(log) :
        /\ k + 1 \in DOMAIN log
        /\ log[k + 1].kind = "wait"
        /\ log[k + 1].ms = log[k].attempt * RateLimitDelay
        /\ (log[k].attempt <= Retries /\ k + 2 \in DOMAIN log) =>
              /\ log[k + 2].kind = "request"
              /\ log[k + 2].ticker = log[k].ticker
              /\ log[k + 2].attempt = log[k].attempt + 1
        /\ \A j \in RateLimited(log) :
              (j < k /\ log[j].ticker = log[k].ticker) => log[j + 1].ms < log[k + 1].ms

\* A ticker rate-limited twice and asked for a third time: the waits were one
\* and two base delays
C23_Witness ==
    \E log \in Logs : \E j, k \in RateLimited(log) :
        /\ j < k
        /\ log[j].ticker = log[k].ticker
        /\ log[j + 1].ms = RateLimitDelay
        /\ log[k + 1].ms = 2 * RateLimitDelay
        /\ k + 2 \in DOMAIN log
        /\ log[k + 2].kind = "request" /\ log[k + 2].attempt = 3

\* --------------------------------------------------------------------- C24
\* The places of the requests of a log
Requests(log) == {k \in DOMAIN log : log[k].kind = "request"}

\* Two requests of a log with no request between them
Consecutive(log, j, k) ==
    /\ j \in Requests(log) /\ k \in Requests(log) /\ j < k
    /\ \A i \in Requests(log) : ~(j < i /\ i < k)

\* The milliseconds waited between two places of a log
RECURSIVE WaitedBetween(_, _, _)
WaitedBetween(log, j, k) ==
    IF j >= k THEN 0
    ELSE (IF log[j].kind = "wait" THEN log[j].ms ELSE 0) + WaitedBetween(log, j + 1, k)

\* At most one request of a batch awaits its response
OneInFlight(log) ==
    \A j, k \in Requests(log) :
        j < k => \E i \in DOMAIN log : j < i /\ i < k /\ log[i].kind = "response"

\* C24: within one batch a request is sent only after the response to the
\* previous one, and two consecutive requests, to two tickers or to the same
\* ticker again, are separated by a wait of at least one second
C24_SequentialAndSpaced ==
    \A log \in Logs :
        /\ OneInFlight(log)
        /\ \A j, k \in DOMAIN log :
              Consecutive(log, j, k) => WaitedBetween(log, j, k) >= 1000

\* A finished batch with a retry of the first ticker after a fixed retry delay
\* and then the request for the second ticker after the inter-request delay
C24_Witness ==
    /\ BatchDone
    /\ \E i, j, k \in DOMAIN resp.log :
          /\ Consecutive(resp.log, i, j) /\ Consecutive(resp.log, j, k)
          /\ resp.log[i].ticker = resp.log[j].ticker
          /\ resp.log[j].ticker # resp.log[k].ticker
          /\ WaitedBetween(resp.log, i, j) = RetryDelay
          /\ WaitedBetween(resp.log, j, k) = BatchDelay

\* --------------------------------------------------------------------- C25
\* The places of the responses of a log that are a request timing out
TimedOut(log) ==
    {k \in DOMAIN log : log[k].kind = "response" /\ log[k].outcome = "throw"}

\* C25: a request that times out is handled as a rate-limited one: the ticker
\* is asked at most Retries + 1 times and, attempts left, the retry follows a
\* wait of n times the base delay after attempt n
C25_TimeoutAsRateLimit ==
    \A log \in Logs : \A k \in TimedOut(log) :
        /\ log[k].attempt <= Retries + 1
        /\ log[k].attempt <= Retries =>
              /\ k + 1 \in DOMAIN log
              /\ log[k + 1].kind = "wait"
              /\ log[k + 1].ms = RateLimitWait(log[k].attempt - 1)
              /\ k + 2 \in DOMAIN log =>
                    /\ log[k + 2].kind = "request"
                    /\ log[k + 2].ticker = log[k].ticker
                    /\ log[k + 2].attempt = log[k].attempt + 1

\* --------------------------------------------------------------------- C27
\* Every transaction references a row of the asset table
Referenced == \A t \in txs : t.assetId \in AssetIds

\* The step answers an authenticated request to delete an asset of the table
DeleteAsked(id) ==
    /\ <<req, resp>>' # <<req, resp>>
    /\ req'.op = "deleteAsset"
    /\ req'.user # NoUser
    /\ req'.id = id

QuotesOfAsset(table, id) == {r \in BagToSet(table) : r.assetId = id}

\* C27: deleting an asset some transaction references is answered 409 and
\* leaves assets, quotes and transactions as they were, so every transaction
\* references an existing asset; deleting an asset no transaction references
\* succeeds and removes the asset and every quote row of it, and nothing else
C27_RestrictAndCascade ==
    /\ []Referenced
    /\ [][\A id \in AssetIds :
             DeleteAsked(id) =>
                IF \E t \in txs : t.assetId = id
                THEN /\ resp'.status = 409
                     /\ <<assets, quotes, txs>>' = <<assets, quotes, txs>>
                ELSE /\ resp'.status = 200
                     /\ DOMAIN assets' = AssetIds \ {id}
                     /\ \A a \in DOMAIN assets' : assets'[a] = assets[a]
                     /\ QuotesOfAsset(quotes', id) = {}
                     /\ \A a \in DOMAIN assets' :
                           QuotesOfAsset(quotes', a) = QuotesOfAsset(quotes, a)
                     /\ txs' = txs]_vars

\* The deletion of a held asset with quotes was refused, after the deletion of
\* another asset that was not held succeeded
C27_Witness ==
    /\ req.op = "deleteAsset" /\ req.user # NoUser
    /\ resp.status = 409
    /\ req.id \in AssetIds
    /\ \E t \in txs : t.assetId = req.id
    /\ QuotesOfAsset(quotes, req.id) # {}
    /\ "a3" \notin AssetIds
    /\ QuotesOfAsset(quotes, "a3") = {}

\* --------------------------------------------------------------------- C28
\* No two rows of the asset table have the same (ticker, type)
UniquePairs ==
    \A a, b \in AssetIds :
        (assets[a].ticker = assets[b].ticker /\ assets[a].type = assets[b].type) => a = b

\* The step is the insert of a creation whose pair the table has
DuplicateInsert ==
    \E slot \in Slots :
        /\ FinishPostAsset(slot, UniqueInput)
        /\ Duplicate(NewAsset(InFlight(slot).body), NULL)

\* The step is an edit that moves a row onto the pair of another row
DuplicateEdit ==
    \E id \in AssetIds : \E patch \in UniquePatches :
        /\ UpdateAsset("u1", id, patch, FALSE)
        /\ Duplicate(Patched(assets[id], patch, FALSE), id)

\* The step is a creation refused by its own search for the pair
DuplicateFound ==
    \E slot \in Slots : \E u \in Users : \E body \in UniqueBodies :
        /\ BeginPostAsset(slot, u, body)
        /\ Duplicate(NewAsset(body), NULL)

\* C28: the (ticker, type) pair is unique among assets, and every creation
\* or edit that would repeat a pair is answered 409 and leaves the asset table
\* as it was, two creations of one pair racing each other included
C28_DuplicateIsConflict ==
    /\ []UniquePairs
    /\ [][(DuplicateFound \/ DuplicateInsert \/ DuplicateEdit)
             => (resp'.status = 409 /\ assets' = assets)]_vars

\* --------------------------------------------------------------------- C26
\* The rows a run answered with `in` on `day` upserts
RowsOf(in, day) ==
    LET rates == FetchDollarRates(in.fx).rates
    IN  {[date |-> day, type |-> rates[i].type, buyPrice |-> rates[i].buyPrice,
          sellPrice |-> rates[i].sellPrice] : i \in DOMAIN rates}
        \cup {[assetId |-> id, date |-> day, price |-> in.cg.data[assets[id].coingeckoId]] :
                 id \in {a \in AssetIds : /\ assets[a].type \in CryptoTypes
                                          /\ Truthy(assets[a].coingeckoId)
                                          /\ assets[a].coingeckoId \in DOMAIN in.cg.data}}
        \cup {[assetId |-> id, date |-> day,
               price |-> FetchYahooQuote(assets[id].yahooTicker, in.yahoo).price] :
                 id \in {a \in AssetIds : /\ assets[a].type \in EquityTypes
                                          /\ Truthy(assets[a].yahooTicker)
                                          /\ FetchYahooQuote(assets[a].yahooTicker, in.yahoo).ok}}

Stored == BagToSet(quotes) \cup BagToSet(dollarRates)

\* The rows of the other keys
OtherKeys(row) == Stored \ SameKey(row)

\* C26: two runs of one day with different prices, their upserts interleaved
\* in every way: each key holds one row, every stored row is a row one of the
\* runs fetched, whole, and each upsert leaves its own row as the row of its
\* key (the last write wins) and the rows of the other keys as they were
C26_LastWriteWins ==
    /\ [](/\ UniqueKeys
          /\ \A row \in Stored : \E in \in RaceInputs : row \in RowsOf(in, row.date))
    /\ [][\A p \in pending : \A row \in Written(p) :
             /\ SameKey(row)' = {row}
             /\ OtherKeys(row)' = OtherKeys(row)]_vars

\* Both runs have returned; the store holds the equity price of one and the
\* crypto price of the other
C26_Witness ==
    /\ pending = {}
    /\ resp.kind = "sync"
    /\ \E a, b \in RaceInputs :
          /\ a # b
          /\ \E row \in RowsOf(a, today) \cap Stored : "assetId" \in DOMAIN row /\ row.assetId = "a1"
          /\ \E row \in RowsOf(b, today) \cap Stored : "assetId" \in DOMAIN row /\ row.assetId = "a3"

\* --------------------------------------------------------------------- C29
\* The rows of `table` not dated `day`, each with its number of copies
OtherDays(table, day) == [row \in {r \in BagToSet(table) : r.date # day} |-> table[row]]

\* C29: a sync run leaves every asset, every transaction and every quote and
\* rate row of another day than its own as they were, its stages failing or
\* not; a portfolio valuation leaves every stored row as it was
C29_Frame ==
    [][/\ req'.op = "sync" =>
             /\ req'.day = today
             /\ assets' = assets
             /\ txs' = txs
             /\ OtherDays(quotes', req'.day) = OtherDays(quotes, req'.day)
             /\ OtherDays(dollarRates', req'.day) = OtherDays(dollarRates, req'.day)
       /\ req'.op = "portfolio" => store' = store]_vars

\* A run whose equity stage failed after its first write has added rows of
\* its day to a store that holds the rows of an earlier day and a purchase
C29_Witness ==
    /\ AuthenticatedSync
    /\ resp.sources.yahoo = "error"
    /\ resp.updated > 0
    /\ txs # {}
    /\ \E row \in BagToSet(quotes) : row.date = req.day
    /\ \E row \in BagToSet(quotes) : row.date < req.day
    /\ \E row \in BagToSet(dollarRates) : row.date < req.day

\* --------------------------------------------------------------------- C30
IsContext == req.op = "chat" /\ resp.kind = "context"

\* The pairs (ticker, type) a list of holdings names
Named(holdings) == {<<holdings[i].ticker, holdings[i].type>> : i \in DOMAIN holdings}

\* The context's holding and the valuation's entry are of one asset
SameAsset(h, e) == h.ticker = e.ticker /\ h.type = e.type

\* C30: on every ledger the context built for the chat assistant lists the
\* assets the valuation lists, each with the valuation's quantity, and its
\* average cost per holding is the valuation's avgPrice, after a partial sale
\* too
C30_ContextAgreesWithValuation ==
    IsContext =>
        \A order \in GroupOrders(req.user) : \A sel \in RateSelections :
            LET entries == Summary(req.user, order, sel).holdings
            IN  /\ Named(resp.holdings) = Named(entries)
                /\ \A a \in DOMAIN resp.holdings : \A i \in DOMAIN entries :
                      SameAsset(resp.holdings[a], entries[i]) =>
                         /\ Num(resp.holdings[a].quantity) = entries[i].quantity
                         /\ resp.avgCost[a] = entries[i].avgPrice
====
